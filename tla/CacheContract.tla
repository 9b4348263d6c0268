--------------------------- MODULE CacheContract ---------------------------
(***************************************************************************)
(* What the CacheManager trait (src/src/cache/mod.rs) promises about the   *)
(* bytes of a page: a best-effort map from pages to bytes.  A put fills a  *)
(* page that is not cached and never overwrites one that is; anything else *)
(* may only forget pages.                                                  *)
(***************************************************************************)
CONSTANTS Pages, Bytes, None

VARIABLE content    \* [Pages -> Bytes \cup {None}]

Init == content = [p \in Pages |-> None]

(* Keep the pages of `kept`, forget the others. *)
Keep(kept) == [q \in Pages |-> IF q \in kept THEN content[q] ELSE None]

Forget == \E kept \in SUBSET Pages : content' = Keep(kept)

(* Cache page p; admitting it may push other pages out. *)
Fill(p) ==
    /\ content[p] = None
    /\ \E kept \in SUBSET Pages, b \in Bytes :
         content' = [Keep(kept) EXCEPT ![p] = b]

Next == Forget \/ \E p \in Pages : Fill(p)

Spec == Init /\ [][Next]_content
=============================================================================
