----------------------------- MODULE ConfigKeys -----------------------------
(***************************************************************************)
(* The settings of GoosefsConfig (src/config.rs): the parsers of their      *)
(* texts and, setting by setting, how a properties key, an environment      *)
(* variable and a builder method treat a value, and its documented domain.  *)
(*                                                                         *)
(* A setting's text is one of a few representative strings, Texts.  A      *)
(* setting's value is a number: a flag is 0 or 1, an enumerator or a       *)
(* string is a code.  An entry of a table is the parser and the rule.      *)
(***************************************************************************)
EXTENDS Integers, Sequences, TLC

Texts == {"", "junk", "true", "TRUE", "0", "1", "2000", "-1", "5s", "5MB",
          "name", "NAME", "na-me", "na_me"}
Absent == "absent"
None == -999

----------------------------------------------------------------------------
(* The parsers *)

Decimal == "0" :> 0 @@ "1" :> 1 @@ "2000" :> 2000 @@ "-1" :> -1

parse_int(t) == IF t \in DOMAIN Decimal THEN Decimal[t] ELSE None
parse_uint(t) == IF t = "-1" THEN None ELSE parse_int(t)

\* str::parse::<bool> and its to_lowercase form.
parse_bool(t) == IF t = "true" THEN 1 ELSE None
parse_bool_lower(t) == IF t \in {"true", "TRUE"} THEN 1 ELSE None
parse_bool_loose(t) ==
    IF t \in {"true", "TRUE", "1"} THEN 1 ELSE IF t = "0" THEN 0 ELSE None

parse_byte_size(t) == IF t = "5MB" THEN 5 * 1048576 ELSE parse_uint(t)
parse_time_size(t) == IF t = "5s" THEN 5000 ELSE parse_int(t)

\* FromStr of the enumerations: "name" stands for a variant in its canonical
\* spelling, the other texts for the spellings that each parser folds.
Variant(t, spellings) == IF t \in spellings THEN 7 ELSE None

WriteType(t) == Variant(t, {"name", "NAME"})
WriterChecksumType(t) == Variant(t, {"name", "NAME", "na_me"})
AuthType(t) == Variant(t, {"name", "NAME", "na_me"})
CacheEvictorType(t) == Variant(t, {"name", "NAME", "na-me"})
MasterPoolSchedule(t) == Variant(t, {"name", "NAME", "na-me", "na_me"})
parse_load_metadata_type(t) == Variant(t, {"name", "NAME"})

parse_text(t) == IF t = "" THEN None ELSE Len(t) + 10

Parse(kind, t) ==
    CASE t = Absent -> None
      [] kind = "int" -> parse_int(t)
      [] kind = "uint" -> parse_uint(t)
      [] kind = "bool" -> parse_bool(t)
      [] kind = "lower" -> parse_bool_lower(t)
      [] kind = "loose" -> parse_bool_loose(t)
      [] kind = "size" -> parse_byte_size(t)
      [] kind = "time" -> parse_time_size(t)
      [] kind = "WriteType" -> WriteType(t)
      [] kind = "Checksum" -> WriterChecksumType(t)
      [] kind = "AuthType" -> AuthType(t)
      [] kind = "Evictor" -> CacheEvictorType(t)
      [] kind = "Schedule" -> MasterPoolSchedule(t)
      [] kind = "LoadType" -> parse_load_metadata_type(t)
      [] kind = "text" -> parse_text(t)

MIN_METRICS_HEARTBEAT_INTERVAL_MS == 1000

\* What an overlay does with a parsed value: None keeps the old one.
duration_from_time_size_ms(n) == IF n <= 0 THEN 0 ELSE n

\* Mutant: zero passes for positive.
LetZero(rule, n) ==
    CASE n = None -> None
      [] rule = "any" -> n
      [] rule \in {"pos", "nonneg"} -> IF n >= 0 THEN n ELSE None
      [] rule = "min" -> IF n >= MIN_METRICS_HEARTBEAT_INTERVAL_MS THEN n ELSE None
      [] rule = "atLeast1" -> IF n < 1 THEN 1 ELSE n
      [] rule = "clamp0" -> duration_from_time_size_ms(n)

Let(rule, n) ==
    CASE n = None -> None
      [] rule = "any" -> n
      [] rule = "pos" -> IF n > 0 THEN n ELSE None
      [] rule = "nonneg" -> IF n >= 0 THEN n ELSE None
      [] rule = "min" -> IF n >= MIN_METRICS_HEARTBEAT_INTERVAL_MS THEN n ELSE None
      [] rule = "atLeast1" -> IF n < 1 THEN 1 ELSE n
      [] rule = "clamp0" -> duration_from_time_size_ms(n)

Overlay(old, how, t) ==
    LET n == Let(how[2], Parse(how[1], t)) IN IF n = None THEN old ELSE n

----------------------------------------------------------------------------
(* PropertiesMap::into_goosefs_config *)

PropSecurity == [
    config_manager_rpc_addresses |-> <<"text", "any">>,
    config_rpc_port |-> <<"uint", "any">>,
    auth_type |-> <<"AuthType", "any">>,
    authorization_permission_enabled |-> <<"loose", "any">>,
    login_impersonation_username |-> <<"text", "any">>,
    auth_username |-> <<"text", "any">>,
    transparent_acceleration_enabled |-> <<"loose", "any">>,
    transparent_acceleration_cosranger_enabled |-> <<"loose", "any">>]

PropWrite == [
    write_type |-> <<"WriteType", "any">>,
    writer_checksum_type |-> <<"Checksum", "any">>,
    file_replication_number |-> <<"int", "pos">>,
    file_replication_durable |-> <<"int", "pos">>,
    file_replication_durable_min |-> <<"int", "pos">>,
    file_write_max_node_retry |-> <<"int", "pos">>,
    block_worker_available_min_remain_bytes |-> <<"size", "any">>,
    block_worker_available_min_remain_ratio |-> <<"int", "nonneg">>,
    worker_read_cache_min_ratio |-> <<"int", "any">>,
    file_async_persist_flush_enabled |-> <<"loose", "any">>,
    file_persistence_initial_wait_time_ms |-> <<"int", "any">>,
    file_persist_on_rename |-> <<"loose", "any">>,
    local_ufs_client_ignore_block_stream_unknown_status |-> <<"loose", "any">>,
    check_block_replicas |-> <<"int", "nonneg">>,
    file_read_max_node_retry |-> <<"int", "pos">>]

PropMetrics == [
    block_size |-> <<"size", "pos">>,
    chunk_size |-> <<"size", "pos">>,
    connect_timeout |-> <<"time", "pos">>,
    request_timeout |-> <<"time", "pos">>,
    use_vpc_mapping |-> <<"loose", "any">>,
    metrics_enabled |-> <<"lower", "any">>,
    metrics_heartbeat_interval |-> <<"uint", "min">>,
    app_id |-> <<"text", "any">>,
    pushgateway_enabled |-> <<"lower", "any">>,
    pushgateway_endpoint |-> <<"text", "any">>,
    pushgateway_push_interval |-> <<"uint", "min">>,
    pushgateway_job |-> <<"text", "any">>,
    pushgateway_instance |-> <<"text", "any">>]

PropCache == [
    client_cache_enabled |-> <<"loose", "any">>,
    client_cache_page_size |-> <<"size", "pos">>,
    client_cache_size |-> <<"size", "any">>,
    client_cache_dirs |-> <<"text", "any">>,
    client_cache_evictor |-> <<"Evictor", "any">>,
    client_cache_async_write_enabled |-> <<"loose", "any">>,
    client_cache_async_write_threads |-> <<"uint", "pos">>,
    client_cache_quota_enabled |-> <<"loose", "any">>,
    client_cache_ttl_secs |-> <<"uint", "any">>,
    client_cache_sequential_read_enabled |-> <<"loose", "any">>,
    client_cache_uring_enabled |-> <<"loose", "any">>,
    client_cache_uring_queue_depth |-> <<"uint", "pos">>,
    client_cache_uring_thread_count |-> <<"uint", "pos">>,
    client_cache_sync_read_enabled |-> <<"loose", "any">>]

PropPools == [
    worker_connection_pool_size |-> <<"uint", "atLeast1">>,
    master_connection_pool_size |-> <<"uint", "atLeast1">>,
    master_connection_pool_schedule |-> <<"Schedule", "any">>,
    metadata_cache_enabled |-> <<"loose", "any">>,
    metadata_cache_max_size |-> <<"uint", "atLeast1">>,
    metadata_cache_expiration |-> <<"time", "clamp0">>,
    file_metadata_sync_interval |-> <<"time", "any">>,
    file_metadata_load_type |-> <<"LoadType", "any">>]

Prop == PropSecurity @@ PropWrite @@ PropMetrics @@ PropCache @@ PropPools

\* Settings with a second key, the storage-option alias, which is applied
\* after the first; the checksum's alias is read only when the first is absent.
Aliased == {"connect_timeout", "request_timeout", "use_vpc_mapping",
            "metadata_cache_enabled", "metadata_cache_max_size",
            "metadata_cache_expiration", "file_metadata_sync_interval",
            "file_metadata_load_type", "file_persist_on_rename"}

into_goosefs_config(s, old, prop, alias) ==
    CASE s = "writer_checksum_type" ->
           Overlay(old, Prop[s], IF prop = Absent THEN alias ELSE prop)
      [] s \in Aliased -> Overlay(Overlay(old, Prop[s], prop), Prop[s], alias)
      [] OTHER -> Overlay(old, Prop[s], prop)

----------------------------------------------------------------------------
(* GoosefsConfig::apply_env *)

EnvWrite == [
    write_type |-> <<"WriteType", "any">>,
    writer_checksum_type |-> <<"Checksum", "any">>,
    file_replication_number |-> <<"int", "pos">>,
    file_replication_durable |-> <<"int", "pos">>,
    file_replication_durable_min |-> <<"int", "pos">>,
    file_write_max_node_retry |-> <<"int", "pos">>,
    file_async_persist_flush_enabled |-> <<"loose", "any">>,
    file_persistence_initial_wait_time_ms |-> <<"int", "any">>,
    file_persist_on_rename |-> <<"loose", "any">>,
    local_ufs_client_ignore_block_stream_unknown_status |-> <<"loose", "any">>,
    check_block_replicas |-> <<"int", "nonneg">>,
    file_read_max_node_retry |-> <<"int", "pos">>,
    block_size |-> <<"uint", "any">>,
    chunk_size |-> <<"uint", "any">>,
    connect_timeout |-> <<"time", "pos">>,
    request_timeout |-> <<"time", "pos">>,
    use_vpc_mapping |-> <<"loose", "any">>]

EnvSecurity == [
    auth_type |-> <<"AuthType", "any">>,
    auth_username |-> <<"text", "any">>,
    config_manager_rpc_addresses |-> <<"text", "any">>,
    config_rpc_port |-> <<"uint", "any">>,
    transparent_acceleration_enabled |-> <<"bool", "any">>,
    transparent_acceleration_cosranger_enabled |-> <<"bool", "any">>,
    authorization_permission_enabled |-> <<"bool", "any">>,
    login_impersonation_username |-> <<"text", "any">>,
    metrics_enabled |-> <<"lower", "any">>,
    metrics_heartbeat_interval |-> <<"uint", "min">>,
    app_id |-> <<"text", "any">>,
    pushgateway_enabled |-> <<"lower", "any">>,
    pushgateway_endpoint |-> <<"text", "any">>,
    pushgateway_push_interval |-> <<"uint", "min">>,
    pushgateway_job |-> <<"text", "any">>,
    pushgateway_instance |-> <<"text", "any">>]

EnvCache == [
    client_cache_enabled |-> <<"lower", "any">>,
    client_cache_page_size |-> <<"uint", "pos">>,
    client_cache_size |-> <<"uint", "any">>,
    client_cache_dirs |-> <<"text", "any">>,
    client_cache_evictor |-> <<"Evictor", "any">>,
    client_cache_async_write_enabled |-> <<"lower", "any">>,
    client_cache_async_write_threads |-> <<"uint", "pos">>,
    client_cache_quota_enabled |-> <<"lower", "any">>,
    client_cache_ttl_secs |-> <<"uint", "any">>,
    client_cache_sequential_read_enabled |-> <<"lower", "any">>,
    client_cache_uring_enabled |-> <<"lower", "any">>,
    client_cache_uring_queue_depth |-> <<"uint", "pos">>,
    client_cache_uring_thread_count |-> <<"uint", "pos">>,
    client_cache_sync_read_enabled |-> <<"lower", "any">>,
    worker_connection_pool_size |-> <<"uint", "atLeast1">>,
    master_connection_pool_size |-> <<"uint", "atLeast1">>,
    master_connection_pool_schedule |-> <<"Schedule", "any">>,
    metadata_cache_enabled |-> <<"loose", "any">>,
    metadata_cache_max_size |-> <<"uint", "atLeast1">>,
    metadata_cache_expiration |-> <<"time", "clamp0">>,
    file_metadata_sync_interval |-> <<"time", "any">>,
    file_metadata_load_type |-> <<"LoadType", "any">>]

Env == EnvWrite @@ EnvSecurity @@ EnvCache

\* The settings that have an environment variable: the ENV_ constants.
ENV_FILE == {
    "write_type", "writer_checksum_type", "file_replication_number",
    "file_replication_durable", "file_replication_durable_min",
    "file_write_max_node_retry", "file_async_persist_flush_enabled",
    "file_persistence_initial_wait_time_ms", "file_persist_on_rename",
    "local_ufs_client_ignore_block_stream_unknown_status", "check_block_replicas",
    "file_read_max_node_retry"}

ENV_CLIENT == {
    "block_size", "chunk_size", "connect_timeout", "request_timeout",
    "use_vpc_mapping", "auth_type", "auth_username", "config_manager_rpc_addresses",
    "config_rpc_port", "transparent_acceleration_enabled",
    "transparent_acceleration_cosranger_enabled", "authorization_permission_enabled",
    "login_impersonation_username", "metrics_enabled", "metrics_heartbeat_interval",
    "app_id", "pushgateway_enabled", "pushgateway_endpoint",
    "pushgateway_push_interval", "pushgateway_job", "pushgateway_instance"}

ENV_CACHE == {
    "client_cache_enabled", "client_cache_page_size", "client_cache_size",
    "client_cache_dirs", "client_cache_evictor", "client_cache_async_write_enabled",
    "client_cache_async_write_threads", "client_cache_quota_enabled",
    "client_cache_ttl_secs", "client_cache_sequential_read_enabled",
    "client_cache_uring_enabled", "client_cache_uring_queue_depth",
    "client_cache_uring_thread_count", "client_cache_sync_read_enabled",
    "worker_connection_pool_size", "master_connection_pool_size",
    "master_connection_pool_schedule", "metadata_cache_enabled",
    "metadata_cache_max_size", "metadata_cache_expiration",
    "file_metadata_sync_interval", "file_metadata_load_type"}

ENV == ENV_FILE \cup ENV_CLIENT \cup ENV_CACHE

----------------------------------------------------------------------------
(* The builder methods: the rule each applies to its argument *)

WithWrite == [
    auth_type |-> "any", auth_username |-> "any", write_type |-> "any",
    file_replication_number |-> "pos", file_replication_durable |-> "pos",
    file_replication_durable_min |-> "pos", file_write_max_node_retry |-> "pos",
    file_persistence_initial_wait_time_ms |-> "any", file_persist_on_rename |-> "any",
    local_ufs_client_ignore_block_stream_unknown_status |-> "any",
    check_block_replicas |-> "nonneg", file_read_max_node_retry |-> "pos"]

WithPools == [
    writer_checksum_type |-> "any", prefetch_window |-> "any",
    ack_interval_bytes |-> "any", master_connection_pool_size |-> "atLeast1",
    master_connection_pool_schedule |-> "any",
    worker_connection_pool_size |-> "atLeast1",
    connect_timeout |-> "any", request_timeout |-> "any", use_vpc_mapping |-> "any",
    metadata_cache_enabled |-> "any", metadata_cache_max_size |-> "atLeast1",
    metadata_cache_expiration |-> "any", file_metadata_sync_interval |-> "any",
    file_metadata_load_type |-> "any", range_coalesce_enabled |-> "any",
    range_coalesce_gap_bytes |-> "any", range_coalesce_max_bytes |-> "atLeast1"]

\* The three intervals assert their minimum.
WithMetrics == [
    metrics_enabled |-> "any", metrics_heartbeat_interval |-> "min",
    metrics_heartbeat_timeout |-> "min", app_id |-> "any",
    pushgateway_enabled |-> "any", pushgateway_endpoint |-> "any",
    pushgateway_push_interval |-> "min", pushgateway_job |-> "any",
    pushgateway_instance |-> "any"]

With == WithWrite @@ WithPools @@ WithMetrics

----------------------------------------------------------------------------
(* The default_ functions and constants: a flag is 0 or 1, a text or an     *)
(* enumerator its code, an absent text 0; a ratio is rounded down, and the   *)
(* cache size (20 GiB) stands as the largest integer.                        *)

DefaultClient == [
    master_inquire_retry_max_duration |-> 120000, master_inquire_initial_sleep |-> 50,
    master_inquire_max_sleep |-> 3000, master_polling_timeout |-> 30000,
    auth_timeout |-> 30000, metrics_max_batch_size |-> 1024, auth_type |-> 7, auth_username |-> 17, config_manager_rpc_addresses |-> 0,
    config_rpc_port |-> 9214, transparent_acceleration_enabled |-> 1,
    transparent_acceleration_cosranger_enabled |-> 0,
    authorization_permission_enabled |-> 0, login_impersonation_username |-> 23,
    metrics_enabled |-> 1, metrics_heartbeat_interval |-> 10000,
    metrics_heartbeat_timeout |-> 5000, app_id |-> 0, pushgateway_endpoint |-> 31,
    pushgateway_push_interval |-> 10000, pushgateway_job |-> 24,
    pushgateway_instance |-> 0]

DefaultCache == [
    client_cache_page_size |-> 1048576, client_cache_size |-> 2147483647,
    client_cache_dirs |-> 33, client_cache_evictor |-> 7,
    client_cache_async_write_enabled |-> 1, client_cache_async_write_threads |-> 16,
    client_cache_quota_enabled |-> 0, client_cache_ttl_secs |-> 0,
    client_cache_uring_queue_depth |-> 32768, client_cache_uring_thread_count |-> 2,
    client_cache_sync_read_enabled |-> 0, client_cache_sequential_read_enabled |-> 0,
    metadata_cache_enabled |-> 0, metadata_cache_max_size |-> 100000,
    metadata_cache_expiration |-> 600000, file_metadata_sync_interval |-> -1,
    file_metadata_load_type |-> 7, range_coalesce_enabled |-> 0,
    range_coalesce_gap_bytes |-> 65536, range_coalesce_max_bytes |-> 4194304]

DefaultFile == [
    file_replication_number |-> 1, file_replication_durable |-> 2,
    file_replication_durable_min |-> 2, file_write_max_node_retry |-> 3,
    block_worker_available_min_remain_bytes |-> 134217728,
    block_worker_available_min_remain_ratio |-> 0, worker_read_cache_min_ratio |-> 0,
    file_async_persist_flush_enabled |-> 1, file_persistence_initial_wait_time_ms |-> 0,
    local_ufs_client_ignore_block_stream_unknown_status |-> 1,
    check_block_replicas |-> 0, file_read_max_node_retry |-> 3, prefetch_window |-> 8,
    read_buffer_messages |-> 16, ack_interval_chunks |-> 1,
    ack_interval_bytes |-> 0, master_connection_pool_size |-> 1,
    worker_connection_pool_size |-> 4]

----------------------------------------------------------------------------
(* The settings and their documented domains (struct GoosefsConfig) *)

DomainWrite == [
    block_size |-> "pos", chunk_size |-> "pos", connect_timeout |-> "nonneg",
    request_timeout |-> "nonneg", use_vpc_mapping |-> "flag", write_type |-> "any",
    writer_checksum_type |-> "any", file_replication_number |-> "pos",
    file_replication_durable |-> "pos", file_replication_durable_min |-> "pos",
    file_write_max_node_retry |-> "pos",
    block_worker_available_min_remain_bytes |-> "nonneg",
    block_worker_available_min_remain_ratio |-> "nonneg",
    worker_read_cache_min_ratio |-> "any", file_async_persist_flush_enabled |-> "flag"]

DomainPools == [
    file_persistence_initial_wait_time_ms |-> "any", file_persist_on_rename |-> "flag",
    local_ufs_client_ignore_block_stream_unknown_status |-> "flag",
    check_block_replicas |-> "nonneg", file_read_max_node_retry |-> "pos",
    prefetch_window |-> "any", ack_interval_bytes |-> "any",
    read_buffer_messages |-> "pos", ack_interval_chunks |-> "pos",
    master_inquire_retry_max_duration |-> "pos", master_inquire_initial_sleep |-> "pos",
    master_inquire_max_sleep |-> "pos", master_polling_timeout |-> "pos",
    master_connection_pool_size |-> "pos", master_connection_pool_schedule |-> "any",
    worker_connection_pool_size |-> "pos"]

DomainSecurity == [
    auth_type |-> "any", auth_username |-> "any", config_manager_rpc_addresses |-> "any",
    config_rpc_port |-> "nonneg", transparent_acceleration_enabled |-> "flag",
    transparent_acceleration_cosranger_enabled |-> "flag",
    authorization_permission_enabled |-> "flag", login_impersonation_username |-> "any",
    metrics_enabled |-> "flag", metrics_heartbeat_interval |-> "min",
    metrics_heartbeat_timeout |-> "min", app_id |-> "any", pushgateway_enabled |-> "flag",
    auth_timeout |-> "pos", metrics_max_batch_size |-> "pos",
    pushgateway_endpoint |-> "any", pushgateway_push_interval |-> "min"]

DomainCache == [
    pushgateway_job |-> "any", pushgateway_instance |-> "any",
    client_cache_enabled |-> "flag", client_cache_page_size |-> "pos",
    client_cache_size |-> "nonneg", client_cache_dirs |-> "any",
    client_cache_evictor |-> "any", client_cache_async_write_enabled |-> "flag",
    client_cache_async_write_threads |-> "pos", client_cache_quota_enabled |-> "flag",
    client_cache_ttl_secs |-> "nonneg", client_cache_uring_enabled |-> "flag",
    client_cache_uring_queue_depth |-> "pos", client_cache_uring_thread_count |-> "pos",
    client_cache_sync_read_enabled |-> "flag",
    client_cache_sequential_read_enabled |-> "flag"]

DomainMetadata == [
    metadata_cache_enabled |-> "flag",
    metadata_cache_max_size |-> "pos", metadata_cache_expiration |-> "nonneg",
    file_metadata_sync_interval |-> "any", file_metadata_load_type |-> "any",
    range_coalesce_enabled |-> "flag", range_coalesce_gap_bytes |-> "nonneg",
    range_coalesce_max_bytes |-> "pos"]

Domain == DomainWrite @@ DomainPools @@ DomainSecurity @@ DomainCache @@ DomainMetadata
Settings == DOMAIN Domain

InDomain(d, n) ==
    CASE d = "any" -> TRUE
      [] d = "flag" -> n \in {0, 1}
      [] d = "nonneg" -> n >= 0
      [] d = "pos" -> n > 0
      [] d = "min" -> n >= MIN_METRICS_HEARTBEAT_INTERVAL_MS
=============================================================================
