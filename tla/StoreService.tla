--------------------------- MODULE StoreService ----------------------------
(***************************************************************************)
(* What the store path promises: it takes a store, copies bytes of the     *)
(* scratchpad to the addresses they are meant for, in any order and any    *)
(* portions, and answers.  When it answers with success every byte of the  *)
(* request has been copied.  Only bytes that share a word with a byte of   *)
(* the request may be copied besides.  The next store begins after that.   *)
(***************************************************************************)
EXTENDS Integers

CONSTANTS
  Requests,    (* Stores: remote_addr, spad_addr, total_len, in bytes. *)
  dataByte     (* Bytes of a word.                                     *)

VARIABLES
  busy,        \* a store is in service
  request,     \* the store last taken
  copied,      \* pairs of a remote byte and the scratchpad byte put there
  success

vars == <<busy, request, copied, success>>

\* n bytes of a store, and its length in whole words.
Bytes(r, n) == {<<r.remote_addr + k, r.spad_addr + k>> : k \in 0 .. n - 1}
WholeWords(r) == ((r.total_len + dataByte - 1) \div dataByte) * dataByte

Init == busy = FALSE /\ request \in Requests /\ copied = {} /\ success = TRUE

Accept ==
  /\ ~busy /\ busy' = TRUE
  /\ request' \in Requests /\ copied' = {} /\ success' = TRUE

Copy ==
  /\ busy /\ success
  /\ copied \subseteq copied' /\ copied' \subseteq Bytes(request, WholeWords(request))
  /\ UNCHANGED <<busy, request, success>>

Fail ==
  /\ busy /\ success
  /\ success' = FALSE /\ UNCHANGED <<busy, request, copied>>

Answer ==
  /\ busy /\ busy' = FALSE
  /\ success => Bytes(request, request.total_len) \subseteq copied
  /\ UNCHANGED <<request, copied, success>>

Next == Accept \/ Copy \/ Fail \/ Answer
Spec == Init /\ [][Next]_vars
=============================================================================
