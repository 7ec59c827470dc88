-------------------------------- MODULE Msg --------------------------------
(***************************************************************************)
(* Message queues, os/msg.c. A queue has a byte as its lock (msglock[]),   *)
(* which is held across the copies from and to the user, that may wait for *)
(* a page. msgsnd() needs room on the queue, a header from the list msgfp  *)
(* and text from the map msgmap, and sleeps for each of them without the   *)
(* lock; msgrcv() sleeps for a message.                                    *)
(*                                                                         *)
(* A step is what is done between two sleeps, the ones hidden in copyin()  *)
(* and copyout() included.                                                 *)
(***************************************************************************)
EXTENDS Rmap, FiniteSets

CONSTANTS
  Proc,
  Slot,       \* the queues, 1 .. msginfo.msgmni
  SeqMax,     \* the last sequence number; the next queue of the slot has 0
  msgtql,     \* message headers
  msgseg,     \* segments of text
  msgssz,     \* bytes in a segment
  msgmap,     \* size of the map of free text, its header and its end mark included
  msgmnb,     \* bytes a queue may hold, when it is made
  Calls,      \* what processes may call
  NULL

ASSUME MsgAssumption ==
  /\ Slot \subseteq Nat /\ SeqMax \in Nat /\ msgtql \in Nat /\ msgmnb \in Nat
  /\ msgseg \in Nat \ {0} /\ msgssz \in Nat \ {0} /\ msgmap \in Nat \ 0 .. 2
  /\ NULL \notin Calls
  /\ \A c \in Calls :
       /\ c.op \in {"msgsnd", "msgrcv", "IPC_RMID", "IPC_SET"}
       /\ c.op = "msgsnd" => c.type \in Nat \ {0} /\ c.ts \in Nat /\ c.nowait \in BOOLEAN
       /\ c.op = "msgrcv" => c.typ \in Int /\ c.sz \in Nat
                             /\ c.noerror \in BOOLEAN /\ c.nowait \in BOOLEAN
       /\ c.op = "IPC_SET" => c.qbytes \in 0 .. msgmnb

VARIABLES
  que,        \* msgque: for each slot the queue
  msglock,    \* for each slot the lock
  pool,       \* headers free, the map, mapwant(msgmap); and what it has lost
  pr          \* for each process where it is

vars == <<que, msglock, pool, pr>>

btoq(x) == (x + msgssz - 1) \div msgssz

Idle == [pc |-> "idle", call |-> NULL, slot |-> NULL, seq |-> 0, again |-> FALSE,
         chan |-> NULL, got |-> 0]

Init ==
  /\ que = [s \in Slot |-> [alloc |-> FALSE, seq |-> 0, msgs |-> <<>>, cbytes |-> 0,
                            qbytes |-> 0, rwait |-> FALSE, wwait |-> FALSE]]
  /\ msglock = [s \in Slot |-> FALSE]
  /\ pool = [hdrs |-> msgtql, map |-> [ents |-> <<[addr |-> 1, size |-> msgseg]>>,
                                       slots |-> msgmap - 3],
             mapwant |-> FALSE, lost |-> {}]
  /\ pr = [p \in Proc |-> Idle]

-----------------------------------------------------------------------------
(* Channels: the lock of a queue; room on it (qp); a message (&msg_qnum);   *)
(* a header (&msgfp); text (msgmap).                                        *)
Locked(s) == <<"lock", s>>
Room(s) == <<"room", s>>
Mail(s) == <<"mail", s>>
Header == <<"header", 0>>
Text == <<"text", 0>>

wakeprocs(f, chans) == [x \in Proc |->
  IF f[x].pc = "asleep" /\ f[x].chan \in chans THEN [f[x] EXCEPT !.pc = "run"] ELSE f[x]]

(* *lockp = 0; wakeprocs(lockp), and what else is woken.                    *)
Unlocked(s) == msglock' = [msglock EXCEPT ![s] = FALSE]
Others(s, chans) == wakeprocs(pr, {Locked(s)} \union chans)

(* The call ends, or goes to sleep.                                         *)
Leave(p, s, chans) ==
  /\ Unlocked(s)
  /\ pr' = [Others(s, chans) EXCEPT ![p] = Idle]
Sleep(p, me, s, chan, chans) ==
  /\ Unlocked(s)
  /\ pr' = [Others(s, chans) EXCEPT ![p] =
              [me EXCEPT !.pc = "asleep", !.again = TRUE, !.chan = chan]]
(* It copies, with the lock held.                                           *)
Copies(p, me, s, pc, got) ==
  /\ msglock' = [msglock EXCEPT ![s] = TRUE]
  /\ pr' = [Others(s, {}) EXCEPT ![p] = [me EXCEPT !.pc = pc, !.chan = NULL, !.got = got]]

-----------------------------------------------------------------------------
(* Headers and text; the channels woken are of a record with pool.          *)
Work == [hdrs |-> pool.hdrs, map |-> pool.map, mapwant |-> pool.mapwant, lost |-> pool.lost,
         woken |-> {}]
Stored(w) == pool' = [hdrs |-> w.hdrs, map |-> w.map, mapwant |-> w.mapwant, lost |-> w.lost]

FreeHeader(w) ==
  [w EXCEPT !.hdrs = @ + 1, !.woken = @ \union IF w.hdrs = 0 THEN {Header} ELSE {}]

FreeText(w, ts, addr) ==
  LET n == btoq(ts)
  IN  IF ts = 0 THEN w
      ELSE IF Overflows(w.map, n, addr)
           THEN [w EXCEPT !.lost = @ \union addr .. addr + n - 1]
      ELSE [w EXCEPT !.map = rmfree(w.map, n, addr), !.mapwant = FALSE,
                     !.woken = @ \union IF w.mapwant THEN {Text} ELSE {}]

(* msgfree() but for the queue; of each message in turn.                    *)
msgfree(w, m) == FreeHeader(FreeText(w, m.ts, m.addr))

FreeAll(w, msgs) ==
  LET freed[n \in 0 .. Len(msgs)] == IF n = 0 THEN w ELSE msgfree(freed[n - 1], msgs[n])
  IN  freed[Len(msgs)]

-----------------------------------------------------------------------------
(* msgsnd() from getres, with the lock and the queue there.                 *)

Append1(s, c, addr) ==
  que' = [que EXCEPT ![s].msgs = Append(@, [type |-> c.type, ts |-> c.ts, addr |-> addr]),
                     ![s].cbytes = @ + c.ts, ![s].rwait = FALSE]
Readers(s) == IF que[s].rwait THEN {Mail(s)} ELSE {}

Full(s, c) == c.ts + que[s].cbytes > que[s].qbytes
TextOf(c) == rmalloc(pool.map, btoq(c.ts))
NoText(c) == c.ts > 0 /\ TextOf(c).addr = 0

(* msgfp is NULL while the header that is put back is off the list.         *)
PutBack == IF pool.hdrs = 1 THEN {Header} ELSE {}

Getres(p, me) ==
  LET c == me.call
      s == me.slot
  IN  \/ /\ Full(s, c) \/ pool.hdrs = 0 \/ NoText(c)
         /\ c.nowait
         /\ Leave(p, s, IF Full(s, c) THEN {} ELSE PutBack)
         /\ UNCHANGED <<que, pool>>
      \/ /\ Full(s, c) /\ ~c.nowait
         /\ que' = [que EXCEPT ![s].wwait = TRUE]
         /\ Sleep(p, me, s, Room(s), {})
         /\ UNCHANGED pool
      \/ /\ ~Full(s, c) /\ pool.hdrs = 0 /\ ~c.nowait
         /\ Sleep(p, me, s, Header, {})
         /\ UNCHANGED <<que, pool>>
      \/ /\ ~Full(s, c) /\ pool.hdrs > 0 /\ NoText(c) /\ ~c.nowait
         /\ pool' = [pool EXCEPT !.mapwant = TRUE]
         /\ Sleep(p, me, s, Text, PutBack)
         /\ UNCHANGED que
      \/ /\ ~Full(s, c) /\ pool.hdrs > 0 /\ c.ts = 0
         /\ pool' = [pool EXCEPT !.hdrs = @ - 1]
         /\ Append1(s, c, 0)
         /\ Leave(p, s, Readers(s))
      \/ /\ ~Full(s, c) /\ pool.hdrs > 0 /\ c.ts > 0 /\ ~NoText(c)
         /\ pool' = [pool EXCEPT !.hdrs = @ - 1, !.map = TextOf(c).map]
         /\ Copies(p, me, s, "text", TextOf(c).addr)
         /\ UNCHANGED que

-----------------------------------------------------------------------------
(* msgrcv() from findmsg: the loop keeps the first message of the lowest    *)
(* type seen so far.                                                        *)

Eligible(msgs, typ) == {i \in DOMAIN msgs :
  CASE typ = 0 -> TRUE [] typ > 0 -> msgs[i].type = typ [] OTHER -> msgs[i].type <= -typ}

\* Mutated form: the first one that a negative type admits.
smpFirst(msgs, typ) ==
  LET E == Eligible(msgs, typ)
  IN  IF E = {} THEN 0 ELSE CHOOSE i \in E : \A j \in E : i <= j

smp(msgs, typ) ==
  LET E == Eligible(msgs, typ)
      prefers(i, j) == \/ typ < 0 /\ msgs[i].type < msgs[j].type
                       \/ (typ >= 0 \/ msgs[i].type = msgs[j].type) /\ i <= j
  IN  IF E = {} THEN 0 ELSE CHOOSE i \in E : \A j \in E : prefers(i, j)

Findmsg(p, me) ==
  LET c == me.call
      s == me.slot
      i == smp(que[s].msgs, c.typ)
  IN  \/ /\ \/ i = 0 /\ c.nowait
            \/ i # 0 /\ que[s].msgs[i].ts > c.sz /\ ~c.noerror
         /\ Leave(p, s, {})
         /\ UNCHANGED <<que, pool>>
      \/ /\ i = 0 /\ ~c.nowait
         /\ que' = [que EXCEPT ![s].rwait = TRUE]
         /\ Sleep(p, me, s, Mail(s), {})
         /\ UNCHANGED pool
      \/ /\ i # 0 /\ (que[s].msgs[i].ts > c.sz => c.noerror)
         /\ Copies(p, me, s, "out", i)
         /\ UNCHANGED <<que, pool>>

-----------------------------------------------------------------------------
\* Mutated form: the sequence number does not wrap.
NextSeqAlways(n) == n + 1

NextSeq(n) == IF n = SeqMax THEN 0 ELSE n + 1

(* IPC_RMID: the messages are freed, the sleepers of the queue woken.       *)
Remove1(p, me) ==
  LET s == me.slot
      w == FreeAll(Work, que[s].msgs)
      sleepers == (IF que[s].rwait THEN {Mail(s)} ELSE {})
                  \union (IF que[s].wwait THEN {Room(s)} ELSE {})
  IN  /\ que' = [que EXCEPT ![s].alloc = FALSE, ![s].msgs = <<>>, ![s].cbytes = 0,
                            ![s].rwait = FALSE, ![s].wwait = FALSE,
                            ![s].seq = NextSeq(@)]
      /\ Stored(w)
      /\ Leave(p, s, w.woken \union sleepers)

(* msgconv(), and what is done with the lock: a send copies the type first. *)
Valid(me) == que[me.slot].alloc /\ que[me.slot].seq = me.seq

\* Mutated form: the lock is not looked at again after the sleep.
HeldOnce(me) == msglock[me.slot] /\ me.chan = NULL

Held(me) == msglock[me.slot]

msgconv(p, me) ==
  LET s == me.slot
      op == me.call.op
  IN  \/ /\ Held(me)
         /\ pr' = [pr EXCEPT ![p] = [me EXCEPT !.pc = "asleep", !.chan = Locked(s)]]
         /\ UNCHANGED <<que, msglock, pool>>
      \/ /\ ~Held(me) /\ ~Valid(me)
         /\ Leave(p, s, {})
         /\ UNCHANGED <<que, pool>>
      \/ /\ ~Held(me) /\ Valid(me)
         /\ \/ /\ op = "IPC_SET" \/ (op = "msgsnd" /\ ~me.again)
               /\ Copies(p, me, s, "in", 0)
               /\ UNCHANGED <<que, pool>>
            \/ op = "msgsnd" /\ me.again /\ Getres(p, me)
            \/ op = "msgrcv" /\ Findmsg(p, me)
            \/ op = "IPC_RMID" /\ Remove1(p, me)

(* A process calls with the id that the slot has now.                       *)
Call(p) ==
  /\ pr[p].pc = "idle"
  /\ \E c \in Calls, s \in Slot :
       msgconv(p, [Idle EXCEPT !.call = c, !.slot = s, !.seq = que[s].seq])

(* It has been woken.                                                       *)
Run(p) == pr[p].pc = "run" /\ msgconv(p, pr[p])

(* sleep(.., PMSG | PCATCH) returns 1, or sleep(lockp, PMSG) does not.      *)
Signal(p) ==
  /\ pr[p].pc \in {"asleep", "run"}
  /\ pr' = [pr EXCEPT ![p].pc = "signalled"]
  /\ UNCHANGED <<que, msglock, pool>>

\* Mutated form: MSG_WWAIT is cleared and nobody is woken.
InterruptedQuiet(p) ==
  LET s == pr[p].slot
      looks == ~msglock[s] /\ Valid(pr[p]) /\ pr[p].chan = Room(s)
  IN  /\ pr[p].pc = "signalled"
      /\ que' = IF looks THEN [que EXCEPT ![s].wwait = FALSE] ELSE que
      /\ pr' = [pr EXCEPT ![p] = Idle]
      /\ UNCHANGED <<msglock, pool>>

(* A sender looks at the queue once more; if the lock is held it is taken   *)
(* out of the call by the signal. The others on the queue are woken.        *)
Interrupted(p) ==
  LET s == pr[p].slot
      looks == ~msglock[s] /\ Valid(pr[p]) /\ pr[p].chan = Room(s)
  IN  /\ pr[p].pc = "signalled"
      /\ que' = IF looks THEN [que EXCEPT ![s].wwait = FALSE] ELSE que
      /\ pr' = [wakeprocs(pr, IF looks THEN {Room(s)} ELSE {}) EXCEPT ![p] = Idle]
      /\ UNCHANGED <<msglock, pool>>

(* The copy of the type, or of the arguments of IPC_SET, is done.           *)
CopiedIn(p) ==
  LET c == pr[p].call
      s == pr[p].slot
  IN  /\ pr[p].pc = "in"
      /\ \/ c.op = "msgsnd" /\ Getres(p, pr[p])
         \/ /\ c.op = "IPC_SET"
            /\ que' = [que EXCEPT ![s].qbytes = c.qbytes]
            /\ Leave(p, s, {})
            /\ UNCHANGED pool

(* The text is copied: the message goes on the queue.                       *)
CopiedText(p) ==
  LET c == pr[p].call
      s == pr[p].slot
  IN  /\ pr[p].pc = "text"
      /\ Append1(s, c, pr[p].got)
      /\ Leave(p, s, Readers(s))
      /\ UNCHANGED pool

(* Type and text are with the receiver: the message is freed.               *)
CopiedOut(p) ==
  LET s == pr[p].slot
      m == que[s].msgs[pr[p].got]
      w == msgfree(Work, m)
  IN  /\ pr[p].pc = "out"
      /\ que' = [que EXCEPT ![s].msgs = RemoveAt(@, pr[p].got), ![s].cbytes = @ - m.ts,
                            ![s].wwait = FALSE]
      /\ Stored(w)
      /\ Leave(p, s, w.woken \union IF que[s].wwait THEN {Room(s)} ELSE {})

\* Mutated form: the text is not given back.
CopyFailsLeaky(p) ==
  LET w == IF pr[p].pc = "text" THEN FreeHeader(Work) ELSE Work
  IN  /\ pr[p].pc \in {"in", "text", "out"}
      /\ Stored(w)
      /\ Leave(p, pr[p].slot, w.woken)
      /\ UNCHANGED que

(* EFAULT: what a sender has is given back.                                 *)
CopyFails(p) ==
  LET w == IF pr[p].pc = "text" THEN FreeHeader(FreeText(Work, pr[p].call.ts, pr[p].got))
                                ELSE Work
  IN  /\ pr[p].pc \in {"in", "text", "out"}
      /\ Stored(w)
      /\ Leave(p, pr[p].slot, w.woken)
      /\ UNCHANGED que

(* msgget() makes a queue of the first slot that is free; msg_cbytes is as  *)
(* the removal has left it.                                                 *)
msgget(p) ==
  /\ pr[p].pc = "idle"
  /\ \E s \in Slot :
       /\ ~que[s].alloc /\ \A t \in Slot : t < s => que[t].alloc
       /\ que' = [que EXCEPT ![s].alloc = TRUE, ![s].msgs = <<>>, ![s].qbytes = msgmnb]
  /\ UNCHANGED <<msglock, pool, pr>>

Next == \E p \in Proc :
  \/ Call(p) \/ Run(p) \/ Signal(p) \/ Interrupted(p)
  \/ CopiedIn(p) \/ CopiedText(p) \/ CopiedOut(p) \/ CopyFails(p) \/ msgget(p)

Spec == Init /\ [][Next]_vars

-----------------------------------------------------------------------------
Message == [type: Nat \ {0}, ts: Nat, addr: 0 .. msgseg]

(* What every variable may be.                                              *)
TypeOK ==
  /\ \A s \in Slot :
       /\ que[s].alloc \in BOOLEAN /\ que[s].rwait \in BOOLEAN /\ que[s].wwait \in BOOLEAN
       /\ que[s].seq \in 0 .. SeqMax /\ que[s].msgs \in Seq(Message)
       /\ que[s].cbytes \in Nat /\ que[s].qbytes \in 0 .. msgmnb
  /\ msglock \in [Slot -> BOOLEAN]
  /\ pool.hdrs \in 0 .. msgtql /\ pool.map \in MapType /\ pool.mapwant \in BOOLEAN
  /\ pool.lost \subseteq 1 .. msgseg
  /\ \A p \in Proc :
       /\ pr[p].pc \in {"idle", "asleep", "run", "signalled", "in", "text", "out"}
       /\ pr[p].pc # "idle" => pr[p].call \in Calls /\ pr[p].slot \in Slot

Holds(p) == pr[p].pc \in {"in", "text", "out"}

(* A lock is held by one process, which copies, and by none when it is free;*)
(* whoever holds it finds the queue, and the message that it copies, as it  *)
(* has found them before the copy: smp and qp are used after copyout() and  *)
(* copyin() without another look.                                           *)
LockedQueueStays == \A s \in Slot :
  LET H == {p \in Proc : Holds(p) /\ pr[p].slot = s}
  IN  /\ Cardinality(H) = IF msglock[s] THEN 1 ELSE 0
      /\ \A p \in H :
           /\ Valid(pr[p])
           /\ pr[p].pc = "out" => pr[p].got = smp(que[s].msgs, pr[p].call.typ)
           /\ pr[p].pc = "text" => ~Full(s, pr[p].call)

(* Text and headers are free, in a message on a queue, or with a sender     *)
(* that copies, and in one of these only; or lost to an overflow of the     *)
(* map. msg_cbytes is the bytes of the queue.                               *)
Queued == UNION {{s} \X DOMAIN que[s].msgs : s \in Slot}
Sending == {p \in Proc : pr[p].pc = "text"}

Segments(addr, ts) == addr .. addr + btoq(ts) - 1
Owner == {<<"free", 0>>, <<"lost", 0>>} \union ({"queued"} \X Queued) \union ({"sending"} \X Sending)
Owned(o) ==
  CASE o[1] = "free"    -> UnitsOf(pool.map)
    [] o[1] = "lost"    -> pool.lost
    [] o[1] = "queued"  -> LET m == que[o[2][1]].msgs[o[2][2]] IN Segments(m.addr, m.ts)
    [] o[1] = "sending" -> Segments(pr[o[2]].got, pr[o[2]].call.ts)

TextAccounted ==
  /\ MapOK(pool.map)
  /\ UNION {Owned(o) : o \in Owner} = 1 .. msgseg
  /\ \A o \in Owner, x \in Owner : o # x => Owned(o) \intersect Owned(x) = {}

Bytes(msgs) ==
  LET sum[n \in 0 .. Len(msgs)] == IF n = 0 THEN 0 ELSE sum[n - 1] + msgs[n].ts
  IN  sum[Len(msgs)]

ResourcesAccounted ==
  /\ TextAccounted
  /\ msgtql = pool.hdrs + Cardinality(Queued) + Cardinality(Sending)
  /\ \A s \in Slot : que[s].cbytes = Bytes(que[s].msgs)

(* Who sleeps has what it sleeps for still to wait for, and its waker is    *)
(* told of it: MSG_WWAIT, MSG_RWAIT and mapwant() are set. (The queue of a  *)
(* sender that waits for a header or for text may be gone: nobody tells it. *)
(* It is so as long as IPC_SET does not raise msg_qbytes, which wakes no    *)
(* sender.)                                                                 *)
NoLostWakeup == \A p \in Proc : pr[p].pc = "asleep" =>
  LET c == pr[p].call
      s == pr[p].slot
  IN  CASE pr[p].chan = Locked(s) -> msglock[s]
        [] pr[p].chan = Room(s)   -> Valid(pr[p]) /\ que[s].wwait /\ Full(s, c)
        [] pr[p].chan = Mail(s)   -> Valid(pr[p]) /\ que[s].rwait /\ smp(que[s].msgs, c.typ) = 0
        [] pr[p].chan = Header    -> pool.hdrs = 0
        [] pr[p].chan = Text      -> pool.mapwant /\ NoText(c)
=============================================================================
