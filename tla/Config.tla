------------------------------- MODULE Config -------------------------------
(***************************************************************************)
(* GoosefsConfig (src/config.rs): how the properties file, the environment *)
(* and the builder methods make up a configuration, and what validate      *)
(* lets into FileSystemContext::connect.                                   *)
(*                                                                         *)
(* The tables of ConfigKeys say how a text is parsed and which values are  *)
(* let through.                                                            *)
(***************************************************************************)
EXTENDS ConfigKeys, Functions

CONSTANTS Hosts,         \* master host names
          PageCache,     \* the crate features of the build
          MetaCache,
          Uring,
          Pushgateway

VARIABLES phase,         \* "file", "env", "built", "connected", "rejected", "panicked"
          text,          \* the settings given: their texts in the file and the environment
          value,         \* the value of those settings
          addr,          \* master_addr, master_addrs and root
          given,         \* the texts that name masters, and the Python caller's argument
          files          \* the places that hold a properties file

vars == <<phase, text, value, addr, given, files>>

----------------------------------------------------------------------------
Defaults ==
    [block_size |-> 64 * 1048576, chunk_size |-> 1048576, connect_timeout |-> 30000,
     request_timeout |-> 300000, use_vpc_mapping |-> 0, write_type |-> 0,
     writer_checksum_type |-> 7, file_persist_on_rename |-> 0,
     master_connection_pool_schedule |-> 7, pushgateway_enabled |-> 0,
     client_cache_enabled |-> 0, client_cache_uring_enabled |-> IF Uring THEN 1 ELSE 0]
    @@ DefaultFile @@ DefaultClient @@ DefaultCache

Default(s) == Defaults[s]

Val(s) == IF s \in DOMAIN value THEN value[s] ELSE Default(s)

----------------------------------------------------------------------------
(* Master addresses *)

Lists == {<<>>} \cup {<<h>> : h \in Hosts}
         \cup {l \in Hosts \X Hosts : l[1] # l[2]}
NotGiven == [kind |-> "absent", addrs |-> <<>>, path |-> ""]
OneAddr(a) == [one |-> a, all |-> <<>>, root |-> ""]
default_addr == OneAddr("127.0.0.1:9200")

\* master_addresses: the list, or the single address when there is none.
master_addresses(a) == IF a.all = <<>> THEN <<a.one>> ELSE a.all

\* A list of one address is kept as the single address.
from_addresses(l) == IF Len(l) = 1 THEN OneAddr(l[1]) ELSE [one |-> l[1], all |-> l, root |-> ""]

\* A URI is refused for its scheme or for an authority without addresses; a
\* trailing slash of its path goes, so that a bare one is no root.
parse_gfs_uri(u) ==
    [ok |-> u.kind = "uri" /\ u.addrs # <<>>, addrs |-> u.addrs,
     root |-> IF u.path \in {"", "/"} THEN "" ELSE "/data"]

from_uri(u) == [from_addresses(u.addrs) EXCEPT !.root = parse_gfs_uri(u).root]

\* The address list hides the host name even when it holds no address.
prop_masters(list, host) ==
    IF list.kind = "list"
    THEN IF list.addrs = <<>> THEN default_addr ELSE from_addresses(list.addrs)
    ELSE IF host.kind = "list" THEN OneAddr(host.addrs[1]) ELSE default_addr

\* GOOSEFS_MASTER_ADDR: a list or a gfs:// URI replaces both fields; an empty
\* list or a malformed URI keeps them.  Only a URI with a path sets the root.
env_masters(old, e) ==
    LET uri == parse_gfs_uri(e) IN
    CASE uri.ok -> [from_addresses(e.addrs) EXCEPT
                        !.root = IF uri.root # "" THEN uri.root ELSE old.root]
      [] e.kind = "list" /\ e.addrs # <<>> ->
            [from_addresses(e.addrs) EXCEPT !.root = old.root]
      [] OTHER -> old

----------------------------------------------------------------------------
(* The properties file *)

\* Where discover_config_file looks, in this order.
Places == <<"config_file", "conf_dir", "home", "user", "system">>

discover_config_file == CHOOSE n \in DOMAIN Places :
    /\ Places[n] \in files
    /\ \A m \in 1 .. n - 1 : Places[m] \notin files

\* In the runs about the place, each file names its place as the master.
HostOf(place) == [kind |-> "list", addrs |-> <<place>>, path |-> ""]

----------------------------------------------------------------------------
Given(t) == [prop |-> t[1], alias |-> t[2], env |-> t[3]]
NothingInFile == \A s \in DOMAIN text : text[s].prop = Absent /\ text[s].alias = Absent
Silent == [list |-> NotGiven, host |-> NotGiven, env |-> NotGiven, arg |-> NotGiven]
Uris == [kind : {"uri"}, addrs : Lists, path : {"", "/", "/data/"}]
Plain(kinds, lists) == [kind : kinds, addrs : lists, path : {""}]

\* What the file and the environment hold: any texts for one setting, the
\* pairs that validate compares, any addresses, or any places with a file.
Init ==
    /\ phase = "file"
    /\ \/ /\ \E s \in Settings, p, a, e \in Texts \cup {Absent} :
                /\ s \in DOMAIN Prop \/ p = Absent
                /\ s \in Aliased \cup {"writer_checksum_type"} \/ a = Absent
                /\ s \in ENV \/ e = Absent
                /\ text = s :> Given(<<p, a, e>>)
          /\ given = Silent
          /\ files \in {{}, {"system"}} /\ (files = {} => NothingInFile)
       \/ /\ \E pair \in {<<"block_size", "chunk_size">>,
                          <<"client_cache_enabled", "client_cache_uring_enabled">>},
                p, q, e, f \in {Absent, "0", "1", "5MB"} :
                text = pair[1] :> Given(<<p, Absent, e>>) @@ pair[2] :> Given(<<q, Absent, f>>)
          /\ given = Silent
          /\ files \in {{}, {"system"}} /\ (files = {} => NothingInFile)
       \/ /\ text = <<>>
          /\ given \in [list : Plain({"absent", "list"}, Lists),
                        host : {NotGiven} \cup Plain({"list"}, {<<h>> : h \in Hosts}),
                        env : Plain({"absent", "list"}, Lists) \cup Uris,
                        arg : {NotGiven}]
          /\ files = {"system"}
       \/ /\ text = <<>>
          /\ given = Silent
          /\ files \in SUBSET Range(Places)
    /\ value = [s \in DOMAIN text |-> Default(s)]
    /\ addr = default_addr

\* The settings that the text of a properties file, or a dictionary in its
\* form, makes of those already there.
from_properties_str ==
    [s \in DOMAIN value |->
       IF s \in DOMAIN Prop
       THEN into_goosefs_config(s, value[s], text[s].prop, text[s].alias)
       ELSE value[s]]

\* The discovered file, if there is one; an unreadable file is an error.
from_properties ==
    /\ phase = "file" /\ files # {}
    /\ \/ /\ phase' = "env"
          /\ value' = from_properties_str
          /\ addr' = prop_masters(given.list,
                        IF text = <<>> /\ given = Silent
                        THEN HostOf(Places[discover_config_file])
                        ELSE given.host)
       \/ phase' = "rejected" /\ UNCHANGED <<value, addr>>
    /\ UNCHANGED <<text, given, files>>

\* from_properties_auto without a file, and from_env.
no_file ==
    /\ phase = "file" /\ files = {}
    /\ phase' = "env"
    /\ UNCHANGED <<text, value, addr, given, files>>

apply_env ==
    /\ phase = "env"
    /\ phase' = "built"
    /\ value' = [s \in DOMAIN value |->
                   IF s \in DOMAIN Env THEN Overlay(value[s], Env[s], text[s].env)
                   ELSE value[s]]
    /\ addr' = env_masters(addr, given.env)
    /\ UNCHANGED <<text, given, files>>

\* The constructors that take addresses and read neither file nor environment.
new ==
    /\ phase = "file" /\ text = <<>> /\ given = Silent
    /\ \/ /\ \E l \in Lists \ {<<>>} :
                addr' \in {from_addresses(l), [one |-> l[1], all |-> l, root |-> ""]}
          /\ phase' = "built"
       \/ \E u \in Uris :
             IF parse_gfs_uri(u).ok THEN addr' = from_uri(u) /\ phase' = "built"
             ELSE phase' = "rejected" /\ UNCHANGED addr
    /\ UNCHANGED <<text, value, given, files>>

\* What the bindings keep of the address argument once the dictionary of
\* properties, which need not name a master, has made a new configuration.
Preserved(own, parsed) ==
    [one |-> IF parsed.one = "" THEN own.one ELSE parsed.one,
     all |-> IF parsed.all = <<>> THEN own.all ELSE parsed.all,
     root |-> IF parsed.root = "" THEN own.root ELSE parsed.root]

\* Config(master_addr, properties) of the bindings: an address, a list or a
\* URI; with it a dictionary, here the texts of the file, or none.  A key or
\* a value that is no text of one line is refused.  (Where the settings are
\* the subject one address stands for all.)
PyConfig ==
    /\ phase = "file" /\ files \in {{}, {"system"}}
    /\ \E a \in IF text = <<>> THEN Plain({"list"}, Lists) \cup Uris
                 ELSE Plain({"list"}, {<<CHOOSE h \in Hosts : TRUE>>}) :
          IF a.addrs = <<>>
          THEN phase' = "rejected" /\ UNCHANGED <<value, addr, given>>
          ELSE LET own == IF a.kind = "uri" THEN from_uri(a) ELSE from_addresses(a.addrs)
               IN  /\ given' = IF text = <<>> THEN [given EXCEPT !.arg = a] ELSE given
                   /\ \/ files = {} /\ phase' = "env" /\ addr' = own /\ UNCHANGED value
                      \/ /\ files # {} /\ phase' = "env"
                         /\ value' = from_properties_str
                         /\ addr' = Preserved(own, prop_masters(given.list, given.host))
                      \/ files # {} /\ phase' = "rejected" /\ UNCHANGED <<value, addr>>
    /\ UNCHANGED <<text, files>>

\* A builder's argument is a value of the setting's type.
Signed == {"file_replication_number", "file_replication_durable",
           "file_replication_durable_min", "file_write_max_node_retry",
           "file_persistence_initial_wait_time_ms", "check_block_replicas",
           "file_read_max_node_retry", "prefetch_window", "ack_interval_bytes",
           "file_metadata_sync_interval"}
Arguments(s) == {0, 1} \cup (IF Domain[s] = "flag" THEN {} ELSE {2000})
                       \cup (IF s \in Signed THEN {-1} ELSE {})

\* One builder call; the interval builders panic below their minimum.
with ==
    /\ phase = "built"
    /\ \E s \in DOMAIN text \cap DOMAIN With : \E n \in Arguments(s) :
          LET m == Let(With[s], n) IN
          IF With[s] = "min" /\ m = None
          THEN phase' = "panicked" /\ UNCHANGED value
          ELSE /\ phase' = "tuned"
               /\ value' = [value EXCEPT ![s] = IF m = None THEN @ ELSE m]
    /\ UNCHANGED <<text, addr, given, files>>

Valid ==
    /\ Val("metadata_cache_enabled") = 1 => MetaCache
    /\ Val("client_cache_enabled") = 1 => PageCache
    /\ Val("client_cache_enabled") = 1 /\ Val("client_cache_uring_enabled") = 1 => Uring
    /\ Val("pushgateway_enabled") = 1 => Pushgateway
    /\ Val("block_size") > 0
    /\ Val("chunk_size") > 0
    /\ Val("chunk_size") <= Val("block_size")
    /\ Val("metrics_heartbeat_interval") >= MIN_METRICS_HEARTBEAT_INTERVAL_MS
    /\ Val("metrics_heartbeat_timeout") >= 1000
    /\ Val("metrics_heartbeat_timeout") < Val("metrics_heartbeat_interval")

validate ==
    /\ phase \in {"built", "tuned"}
    /\ phase' = IF Valid THEN "connected" ELSE "rejected"
    /\ UNCHANGED <<text, value, addr, given, files>>

\* The configuration is in use, or the program has its error.
Settled ==
    /\ phase \in {"connected", "rejected", "panicked"}
    /\ UNCHANGED vars

Next == from_properties \/ no_file \/ apply_env \/ new \/ PyConfig \/ with \/ validate
        \/ Settled

Spec == Init /\ [][Next]_vars

\* CacheManagerOptions::from_config: what the page cache is built with.  The
\* capacity is 95% of the size.
CacheManagerOptions ==
    LET size == Val("client_cache_size") IN
    [page_size |-> IF Val("client_cache_page_size") = 0 THEN 1048576
                   ELSE Val("client_cache_page_size"),
     dir_capacity |-> 19 * (size \div 20) + (19 * (size % 20)) \div 20,
     async_write_threads |-> IF Val("client_cache_async_write_threads") < 1 THEN 1
                             ELSE Val("client_cache_async_write_threads"),
     ttl |-> IF Val("client_cache_ttl_secs") = 0 THEN None ELSE Val("client_cache_ttl_secs")]

\* ReadTuning::from_config: the knobs of a block reader.
ReadTuning ==
    LET AtLeast(n, s) == IF Val(s) < n THEN n ELSE Val(s) IN
    [prefetch_window |-> Val("prefetch_window"),
     buffer_messages |-> AtLeast(1, "read_buffer_messages"),
     ack_interval_bytes |-> AtLeast(0, "ack_interval_bytes"),
     ack_interval_chunks |-> AtLeast(1, "ack_interval_chunks")]

pages_per_dir == CacheManagerOptions.dir_capacity \div CacheManagerOptions.page_size

----------------------------------------------------------------------------
TypeOK ==
    /\ phase \in {"file", "env", "built", "tuned", "connected", "rejected", "panicked"}
    /\ files \subseteq Range(Places)
    /\ DOMAIN value = DOMAIN text /\ DOMAIN text \subseteq Settings
    /\ \A s \in DOMAIN value : value[s] \in Int

Accepted(how, t) == Let(how[2], Parse(how[1], t))

FileTexts(s) == IF s = "writer_checksum_type" /\ text[s].prop # Absent
                THEN {text[s].prop} ELSE {text[s].prop, text[s].alias}

\* The documented order of the sources: what the environment sets decides,
\* then what either key of the file sets, then the default.
LayerOrder ==
    phase = "built" =>
        \A s \in DOMAIN text :
            LET e == IF s \in ENV THEN Accepted(Env[s], text[s].env) ELSE None
                f == IF s \in DOMAIN Prop
                     THEN {Accepted(Prop[s], t) : t \in FileTexts(s)} \ {None} ELSE {}
            IN value[s] \in IF e # None THEN {e} ELSE IF f # {} THEN f ELSE {Default(s)}

\* No text in the file or the environment and no builder call brings a value
\* outside its setting's domain into a connected context.
DomainsKept ==
    phase = "connected" =>
        \A s \in DOMAIN value : InDomain(Domain[s], value[s])

\* The cache of a connected context has pages, writers and a capacity within
\* the size it was given, and its pages expire when a TTL is set; a reader
\* has room for a message and acknowledges some day
\* (CacheManagerOptions::from_config, ReadTuning::from_config).
OptionsUsable ==
    phase = "connected" =>
        LET o == CacheManagerOptions IN
        /\ o.page_size > 0 /\ o.async_write_threads > 0
        /\ o.dir_capacity <= Val("client_cache_size")
        /\ pages_per_dir * o.page_size <= Val("client_cache_size")
        /\ o.ttl = None \/ o.ttl > 0
        /\ ReadTuning.buffer_messages > 0
        /\ ReadTuning.ack_interval_chunks > 0 /\ ReadTuning.ack_interval_bytes >= 0

\* The settings whose environment variable is parsed more strictly than
\* their key in the file.
Stricter == {"transparent_acceleration_enabled", "authorization_permission_enabled",
             "transparent_acceleration_cosranger_enabled",
             "client_cache_enabled", "client_cache_async_write_enabled",
             "client_cache_quota_enabled", "client_cache_sequential_read_enabled",
             "client_cache_uring_enabled", "client_cache_sync_read_enabled",
             "block_size", "chunk_size", "client_cache_page_size", "client_cache_size"}

\* The same text means the same in the file and in the environment for every
\* setting that has both, except the ones of Stricter.
LayersAgree ==
    phase = "built" =>
        \A s \in DOMAIN text : s \in (DOMAIN Prop \cap DOMAIN Env) \ Stricter =>
            Accepted(Env[s], text[s].env) = Accepted(Prop[s], text[s].env)

\* master_addr, which the single-master paths dial, is the first of the
\* addresses the polling client tries, and all of them come from one source.
\* A list a Python program names is kept unless its properties or the
\* environment name others; a single address with properties is replaced by
\* the default's, which is never empty (PyConfig::new).
MastersOneSource ==
    /\ given.arg = NotGiven => addr.one = master_addresses(addr)[1]
    /\ phase = "built" /\ given.env.addrs # <<>> /\ given.env.kind # "absent"
         => master_addresses(addr) = given.env.addrs
    /\ addr.root # "" /\ given # Silent =>
         \/ given.env.kind = "uri" /\ given.env.addrs # <<>>
         \/ given.arg.kind = "uri"
    /\ phase = "env" /\ given.arg # NotGiven /\ given.list = NotGiven /\ given.host = NotGiven
         => \/ master_addresses(addr) = given.arg.addrs
            \/ files # {} /\ Len(given.arg.addrs) = 1

\* The settings come from the first of the documented places that holds a
\* file, and from no other (discover_config_file).
FirstFileDecides ==
    phase = "built" /\ text = <<>> /\ given = Silent /\ addr.one \in Range(Places) =>
        \A n \in DOMAIN Places : Places[n] \in files =>
            \E m \in 1 .. n : Places[m] = addr.one
=============================================================================
