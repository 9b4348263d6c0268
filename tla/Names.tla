-------------------------------- MODULE Names --------------------------------
(***************************************************************************)
(* The names the client makes from the names it is given: the metadata     *)
(* cache's keys (normalize_path, parent_path), the metric names and URL    *)
(* segments of the push gateway (sanitize_metric_name, url_encode) and the *)
(* ids of a file's blocks (compute_block_id, block_sequence_number).       *)
(*                                                                         *)
(* A text is a sequence of characters of a small alphabet with one of each *)
(* kind the code tells apart; "e'" is a letter outside ASCII, of two       *)
(* bytes. A file id has SeqBits low bits for the block's number.           *)
(***************************************************************************)
EXTENDS Integers, Sequences, FiniteSets, SequencesExt, FiniteSetsExt

CONSTANTS MaxText,   \* bound: length of a text
          FileIds,   \* the inode ids of files, one per container
          SeqBits,   \* bits of a block's number in an id (24 in the code)
          IdBits     \* bits of an id (64 in the code)

VARIABLES name,      \* the text given
          ids        \* the blocks opened, each with its file, number and id

Upper == {"F"}
Lower == [c \in Upper |-> "f"]
Unreserved == {"a", "f", "F", "2", ".", "_"}
Alphabet == {"/", " ", "a", "F", "2", ".", "%", "e'"}

----------------------------------------------------------------------------
(* Paths *)

Blank(c) == c = " "
trim(s) ==
    LET kept == {i \in DOMAIN s : ~Blank(s[i])}
    IN  IF kept = {} THEN <<>> ELSE SubSeq(s, Min(kept), Max(kept))
trim_end_matches(s) == SubSeq(s, 1, Max({0} \cup {i \in DOMAIN s : s[i] # "/"}))

normalize_path(path) ==
    LET stripped == trim_end_matches(trim(path))
    IN  IF stripped = <<>> THEN <<"/">>
        ELSE IF Head(stripped) = "/" THEN stripped ELSE <<"/">> \o stripped

parent_path(path) ==
    LET normalized == normalize_path(path)
        last_slash == Max({i \in DOMAIN normalized : normalized[i] = "/"})
    IN  CASE normalized = <<"/">> -> <<>>            \* None
          [] normalized # <<"/">> /\ last_slash = 1 -> <<"/">>
          [] normalized # <<"/">> /\ last_slash > 1 -> SubSeq(normalized, 1, last_slash - 1)

----------------------------------------------------------------------------
(* Metrics *)

(* What one character of a metric name becomes, given those before it. *)
sanitize_metric_name(text) ==
    LET before(i) == IF i = 1 THEN "." ELSE text[i - 1]
        at(i) == IF text[i] \in Upper
                 THEN (IF before(i) \in Upper \cup {"."} THEN <<>> ELSE <<"_">>) \o <<Lower[text[i]]>>
                 ELSE IF text[i] \in {"a", "2", "e'", "_"} THEN <<text[i]>> ELSE <<"_">>
    IN  <<"goosefs_">> \o FlattenSeq([i \in DOMAIN text |-> at(i)])

as_bytes(c) == CASE c = "/" -> << <<"2", "F">> >> [] c = " " -> << <<"2", "0">> >>
                 [] c = "%" -> << <<"2", "5">> >> [] c = "e'" -> << <<"C", "3">>, <<"A", "9">> >>

url_encode(s) ==
    FlattenSeq([i \in DOMAIN s |->
        IF s[i] \in Unreserved THEN <<s[i]>>
        ELSE FlattenSeq([j \in DOMAIN as_bytes(s[i]) |-> <<"%">> \o as_bytes(s[i])[j]])])

(* The job and the grouping labels, each a pair of texts, as segments. *)
push_url(endpoint, job, labels) ==
    trim_end_matches(endpoint) \o <<"/", "metrics", "/", "job", "/">> \o url_encode(job)
        \o FlattenSeq([i \in DOMAIN labels |->
               <<"/">> \o url_encode(labels[i][1]) \o <<"/">> \o url_encode(labels[i][2])])

----------------------------------------------------------------------------
(* Block ids *)

compute_block_id(file_id, block_index) ==
    LET container_id == (file_id \div 2^SeqBits) % 2^(IdBits - SeqBits)
    IN  (container_id * 2^SeqBits) + (block_index % 2^SeqBits)

block_sequence_number(block_id) == block_id % 2^SeqBits

----------------------------------------------------------------------------
Init == name = <<>> /\ ids = {}

(* A caller's name, one character longer. *)
Extend(c) == Len(name) < MaxText /\ name' = Append(name, c) /\ UNCHANGED ids

(* The writer of a file opens its next block. *)
next_block(file_id) ==
    LET i == Cardinality({b \in ids : b.file = file_id})
    IN  /\ name = <<>> /\ i < 2^SeqBits
        /\ ids' = ids \cup {[file |-> file_id, index |-> i, id |-> compute_block_id(file_id, i)]}
        /\ UNCHANGED name

Next ==
    \/ \E c \in Alphabet : ids = {} /\ Extend(c)
    \/ \E file_id \in FileIds : next_block(file_id)
    \/ (Len(name) = MaxText \/ ids # {}) /\ UNCHANGED <<name, ids>>

Spec == Init /\ [][Next]_<<name, ids>>

TypeOK ==
    /\ name \in Seq(Alphabet)
    /\ \A b \in ids : b.id \in 0 .. 2^IdBits - 1

Inner(s) == \A i \in DOMAIN s : ~Blank(s[i])
Key == normalize_path(name)

\* The key of a path is a key itself, it ends in no slash unless it is the
\* root, and the key of the directory of any entry below a path is the key of
\* that path: invalidating the entry finds the cached listing. For names
\* without blanks inside (normalize_path, parent_path).
KeysMeet ==
    Inner(trim(name)) =>
        /\ normalize_path(Key) = Key
        /\ Head(Key) = "/" /\ (Last(Key) = "/" => Key = <<"/">>)
        /\ normalize_path(parent_path(name \o <<"/", "a">>)) = Key
        /\ (parent_path(name) = <<>>) = (Key = <<"/">>)

\* A metric name in ASCII becomes one Prometheus accepts
\* (sanitize_metric_name).
MetricNamesValid ==
    "e'" \notin Range(name) =>
        Range(sanitize_metric_name(name)) \subseteq {"goosefs_", "a", "f", "2", "_", ":"}

RECURSIVE Decode(_)
Decode(s) ==
    IF s = <<>> THEN <<>>
    ELSE IF Head(s) # "%" THEN <<Head(s)>> \o Decode(Tail(s))
    ELSE LET byte == <<s[2], s[3]>>
             rest == SubSeq(s, 4, Len(s))
         IN  IF byte = <<"C", "3">> THEN <<"e'">> \o Decode(SubSeq(rest, 4, Len(rest)))
             ELSE <<CHOOSE c \in Alphabet \ Unreserved : as_bytes(c) = <<byte>> >> \o Decode(rest)

\* A job or label stays one segment of the URL, whatever it contains, and
\* decodes to the text it came from (url_encode, push_url).
SegmentsKept ==
    LET url == push_url(<<"a", "/">>, name, << <<<<"a">>, name>>, <<name, <<"2">>>> >>)
    IN  /\ Cardinality({i \in DOMAIN url : url[i] = "/"}) = 7
        /\ Decode(url_encode(name)) = name

\* The blocks of all files have different ids, and an id gives the number of
\* its block back (compute_block_id, block_sequence_number).
BlockIdsApart ==
    /\ \A b, c \in ids : b.id = c.id => b = c
    /\ \A b \in ids : block_sequence_number(b.id) = b.index
=============================================================================
