----------------------------- MODULE AsyncReader -----------------------------
(***************************************************************************)
(* GoosefsAsyncReader: the AsyncRead / AsyncSeek adapter.  It owns the     *)
(* stream when Idle; a poll_read or a start_seek moves it into a future    *)
(* that poll_read / poll_complete drive, Reading or Seeking.  The future   *)
(* belongs to the adapter: a caller that drops its own read future (a      *)
(* select! or a timeout) leaves it in flight, and a later poll_read, with  *)
(* the buffer of that caller, takes what it returns.                       *)
(*                                                                         *)
(* The steps of the future are those of the stream's call, module          *)
(* FileInStream, whose `pc' is idle again when the future is ready.        *)
(***************************************************************************)
EXTENDS FileInStream

VARIABLES state,    \* State: Idle, Reading or Seeking
          want,     \* buf.remaining() of the latest poll
          shrunk,   \* ghost: a poll of this future came with a smaller buffer
          given     \* what the adapter last handed over: at, from, to
avars == <<vars, state, want, shrunk, given>>

NoBytes == [at |-> 0, from |-> 0, to |-> 0]

AsyncInit == Init /\ state = "Idle" /\ want = 0 /\ shrunk = FALSE /\ given = NoBytes

(* Idle: the caller has the stream itself (get_mut, into_inner).             *)
Direct ==
    /\ state = "Idle"
    /\ Next
    /\ given' = NoBytes /\ shrunk' = FALSE
    /\ UNCHANGED <<state, want>>

(* poll_read of an idle adapter: a future of a read as long as the buffer. *)
PollRead(n) ==
    /\ state = "Idle"
    /\ pc = "idle"
    /\ Read(n) \/ ReadParked(n) \/ ReadEof
    /\ state' = "Reading"
    /\ want' = n
    /\ shrunk' = FALSE
    /\ given' = NoBytes

(* The next poll_read of the same future comes with another buffer. *)
RepollRead(n) ==
    /\ state = "Reading"
    /\ pc # "idle"
    /\ want' = n
    /\ shrunk' = (shrunk \/ n < want)
    /\ UNCHANGED <<vars, state, given>>

start_seek(p) ==
    /\ state = "Idle"
    /\ pc = "idle"
    /\ Seek(p)
    /\ state' = "Seeking"
    /\ given' = NoBytes
    /\ UNCHANGED <<want, shrunk>>

(* The future, the worker and the network go on. *)
Drive ==
    /\ state # "Idle"
    /\ \/ Worker \/ HalfCloses(TRUE) \/ HalfCloses(FALSE) \/ Breaks
       \/ pc # "idle" /\ (Step \/ ConnectFails \/ ReadAtFails)
    /\ UNCHANGED <<state, want, shrunk, given>>

(* poll_read of a ready future: the stream is put back, and as many bytes   *)
(* as the buffer holds are handed over.                                      *)
Deliver ==
    /\ state = "Reading"
    /\ pc = "idle"
    /\ state' = "Idle"
    /\ given' = IF out.op = "error" THEN NoBytes
                ELSE [at |-> out.at, from |-> out.from,
                      to |-> out.from + Min({out.to - out.from, want})]
    /\ want' = 0
    /\ UNCHANGED <<vars, shrunk>>

(* poll_complete of a seek in flight: Pending. *)
RepollSeek ==
    /\ state = "Seeking"
    /\ pc # "idle"
    /\ UNCHANGED avars

(* Mutant of poll_complete: the stream is not put back. *)
poll_completeKeeps ==
    /\ state = "Seeking"
    /\ pc = "idle"
    /\ UNCHANGED <<vars, state, want, shrunk, given>>

(* poll_complete of a ready seek, or of an error. *)
poll_complete ==
    /\ state = "Seeking"
    /\ pc = "idle"
    /\ state' = "Idle"
    /\ UNCHANGED <<vars, want, shrunk, given>>

AsyncNext ==
    \/ Direct \/ Drive \/ Deliver \/ RepollSeek \/ poll_complete
    \/ \E n \in 1 .. MaxBuf : PollRead(n) \/ RepollRead(n)
    \/ \E p \in 0 .. Length : start_seek(p)

(* A future that is in flight is polled, and a live worker keeps sending. *)
FairWorker == (Drain \/ TakeAck) /\ UNCHANGED <<state, want, shrunk, given>>
FairStep == Step /\ UNCHANGED <<state, want, shrunk, given>>
HandOver == Deliver \/ poll_complete

----------------------------------------------------------------------------
(* What poll_read hands over is all the stream gave: the position after it  *)
(* is the stream's, so nothing is lost between two reads of the adapter     *)
(* (module doc, byte-loss safety), as long as a read that was given up is    *)
(* not taken up with a smaller buffer.                                       *)
NothingLost ==
    state = "Idle" /\ given # NoBytes /\ out.op = "read" /\ ~(shrunk \/ dropped) => given.to = UserPos

(* No call hangs (acknowledgements, which are put off when the request       *)
(* channel is full, never leave the worker waiting for the reader that waits *)
(* for it), and after it the stream is back with the adapter, which can be   *)
(* used or unwrapped again (maybe_send_ack, poll_complete, into_inner).      *)
Returned == pc = "idle" /\ state = "Idle"
=============================================================================
