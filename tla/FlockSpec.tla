----------------------------- MODULE FlockSpec -----------------------------
(***************************************************************************)
(* What os/flock.c promises: every owner holds on every byte of a file a   *)
(* read lock, a write lock or none; a request takes effect at once, on all *)
(* of its bytes and on no others. One that fails for want of a record gives*)
(* nothing, but may cost the owner locks that it had. An owner that waits  *)
(* has one request, and it is this one that is granted or given up.        *)
(***************************************************************************)
EXTENDS Integers

CONSTANTS Owner, File, Byte, Request, NULL

VARIABLES
  held,     \* held[f][b][o]: "none", "F_RDLCK" or "F_WRLCK"
  waiting,  \* the request that each owner waits with, or NULL
  answer    \* the last request that was to change locks, and its error

Bytes(req) == req.start .. req.end
Wanted(req) == IF req.type = "F_UNLCK" THEN "none" ELSE req.type

Compatible(x, y) == "none" \in {x, y} \/ (x = "F_RDLCK" /\ y = "F_RDLCK")
InTheWay(req) == \E b \in Bytes(req), q \in Owner \ {req.owner} :
  ~Compatible(held[req.file][b][q], Wanted(req))

With(req, bytes, type) == [held EXCEPT ![req.file] =
  [b \in Byte |-> IF b \in bytes THEN [@[b] EXCEPT ![req.owner] = type] ELSE @[b]]]

SpecInit ==
  /\ held = [f \in File |-> [b \in Byte |-> [o \in Owner |-> "none"]]]
  /\ waiting = [o \in Owner |-> NULL]
  /\ answer = NULL

Answer(req, err) ==
  /\ waiting[req.owner] \in {NULL, req}
  /\ waiting' = [waiting EXCEPT ![req.owner] = NULL]
  /\ answer' = [req |-> req, err |-> err]

Grant(req) ==
  /\ Answer(req, "ok")
  /\ req.setflck /\ ~InTheWay(req)
  /\ held' = With(req, Bytes(req), Wanted(req))

NoRecords(req) ==
  /\ Answer(req, "ENOLCK")
  /\ req.setflck /\ ~InTheWay(req)
  /\ \E bytes \in SUBSET Byte :
       /\ req.type = "F_UNLCK" => bytes \subseteq Bytes(req)
       /\ held' = With(req, bytes, "none")

Wait(req) ==
  /\ waiting[req.owner] = NULL
  /\ waiting' = [waiting EXCEPT ![req.owner] = req]
  /\ req.slpflck /\ InTheWay(req)
  /\ UNCHANGED <<held, answer>>

(* A signal, EDEADLK, ENOLCK, or a question that asks for nothing more.     *)
GiveUp(o) ==
  /\ waiting[o] # NULL
  /\ waiting' = [waiting EXCEPT ![o] = NULL]
  /\ UNCHANGED <<held, answer>>

SpecNext ==
  \/ \E req \in Request : Grant(req) \/ NoRecords(req) \/ Wait(req)
  \/ \E o \in Owner : GiveUp(o)

SpecSpec == SpecInit /\ [][SpecNext]_<<held, waiting, answer>>
=============================================================================
