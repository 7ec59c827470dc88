-------------------------------- MODULE Bio ---------------------------------
(***************************************************************************)
(* The buffer cache, os/bio.c: the buffers, the list of the free ones and  *)
(* the memory they are made of; the processes that read, write and flush   *)
(* blocks, and the disk, whose interrupts complete the transfers.          *)
(*                                                                         *)
(* A process keeps the processor until it sleeps; a step is what it does   *)
(* at spl6, or between two points at which an interrupt can come.          *)
(*                                                                         *)
(* Abstractions: one device; a hash chain is the set of the buffers that   *)
(* name the block; headers do not run out, as getfreeblk() allocates them  *)
(* when bhdrlist is empty; the contents of a block are a value; a caller   *)
(* holds one buffer at a time (ufs_bmap(), which may have two, is left     *)
(* out: callers like it can wait for each other).                          *)
(***************************************************************************)
EXTENDS Integers, SequencesExt, FiniteSets, FiniteSetsExt

CONSTANTS Procs, NoProc, Bufs, NoBuf, Blocks, NoBlock,
          Vals,         \* contents of a block
          NoVal,        \* what a failed read leaves in a buffer
          bsize,        \* the size of each block
          v_bufhwm,     \* the memory for buffers
          manyfree,     \* with more free buffers bawrite() does not wait: 4
          Calls,        \* what the processes do
          IoErrors,     \* the blocks whose transfers may fail
          KmemSleeps    \* may kmem_zalloc() have to wait?

ASSUME BioAssumption ==
    /\ IsFiniteSet(Procs) /\ IsFiniteSet(Bufs)
    /\ NoProc \notin Procs /\ NoBuf \notin Bufs /\ NoBlock \notin Blocks
    /\ NoVal \notin Vals /\ Vals # {}
    /\ bsize \in [Blocks -> Nat \ {0}]
    /\ v_bufhwm \in Nat /\ \A x \in Blocks : bsize[x] <= v_bufhwm
    /\ manyfree \in Nat
    /\ Calls \subseteq {"bread", "breada", "getblk", "bflush", "blkflush", "close"}
    /\ IoErrors \subseteq Blocks
    /\ KmemSleeps \in BOOLEAN

VARIABLES c,      \* the cache: buffers, bfreelist, its b_bufsize and B_WANTED
          basyncnt,
          pr,     \* where each process is
          cur,    \* the process that has the processor, or NoProc
          io,     \* the buffers that a driver has, in the order it got them
          disk

vars == <<c, basyncnt, pr, cur, io, disk>>

Flags == {"BUSY", "WANTED", "DONE", "DELWRI", "AGE", "ASYNC", "READ", "STALE", "ERROR"}

BufRecord  == [flags : SUBSET Flags, blkno : Blocks \cup {NoBlock}, bufsize : Nat,
               data : Vals \cup {NoVal}]
ProcRecord == [pc : {"user", "search", "check", "getfree", "reclaim", "kmem", "got", "ra", "raend",
                     "iowait", "hold", "asyncnt", "asleep", "bflush", "blkflush", "blkcheck", "flushed"},
               then : {"user", "search", "getfree", "iowait", "bflush", "blkflush"},
               call : Calls \cup {"none", "bread", "ra", "write"},
               blk : Blocks \cup {NoBlock},    \* the block to get
               ra : Blocks \cup {NoBlock},     \* the block to read ahead
               bp : Bufs \cup {NoBuf},         \* the buffer held for the caller
               b : Bufs \cup {NoBuf},          \* the buffer looked at in getblk()
               nbp : Bufs \cup {NoBuf},        \* nbp of getblk(), savebp of getfreeblk()
               chan : Bufs \cup {NoBuf}]       \* slept on; NoBuf is &bfreelist

TypeOK ==
    /\ c \in [buf : [Bufs -> BufRecord], free : Seq(Bufs), bufsize : 0..v_bufhwm, wanted : BOOLEAN]
    /\ basyncnt \in Int
    /\ pr \in [Procs -> ProcRecord]
    /\ cur \in Procs \cup {NoProc}
    /\ io \in Seq(Bufs)
    /\ disk \in [Blocks -> Vals]

Idle == [pc |-> "user", then |-> "user", call |-> "none", blk |-> NoBlock, ra |-> NoBlock,
         bp |-> NoBuf, b |-> NoBuf, nbp |-> NoBuf, chan |-> NoBuf]
NoBuffer == [flags |-> {}, blkno |-> NoBlock, bufsize |-> 0, data |-> NoVal]

Init ==
    /\ c = [buf |-> [b \in Bufs |-> NoBuffer], free |-> <<>>, bufsize |-> v_bufhwm, wanted |-> FALSE]
    /\ basyncnt = 0
    /\ pr = [p \in Procs |-> Idle]
    /\ cur = NoProc
    /\ io = <<>>
    /\ disk = [x \in Blocks |-> CHOOSE v \in Vals : TRUE]

-----------------------------------------------------------------------------
Is(b, f)  == f \in c.buf[b].flags
Cached(x) == {b \in Bufs : c.buf[b].blkno = x /\ ~Is(b, "STALE")}
incore(x) == Cached(x) # {}
Headers   == {b \in Bufs : c.buf[b].bufsize = 0}     \* bhdrlist

notavail(K, b) ==
    [K EXCEPT !.free = RemoveFirst(@, b), !.buf[b].flags = @ \cup {"BUSY"}]

\* Mutated form: B_BUSY is not cleared.
brelseBusy(K, b) ==
    [K EXCEPT !.wanted = FALSE, !.buf[b].flags = @ \ {"WANTED", "ASYNC"},
              !.free = Append(@, b)]

brelse(K, b) ==
    LET failed == "ERROR" \in K.buf[b].flags
        flags  == IF failed THEN (K.buf[b].flags \cup {"STALE", "AGE"}) \ {"ERROR", "DELWRI"}
                  ELSE K.buf[b].flags
    IN [K EXCEPT !.wanted = FALSE,
                 !.buf[b].flags = flags \ {"WANTED", "BUSY", "ASYNC"},
                 !.free = IF "AGE" \in flags THEN <<b>> \o @ ELSE Append(@, b)]

\* The channels that brelse() wakes.
Released(b) == (IF Is(b, "WANTED") THEN {b} ELSE {}) \cup (IF c.wanted THEN {NoBuf} ELSE {})

wakeprocs(f, C) ==
    [p \in Procs |-> IF f[p].pc = "asleep" /\ f[p].chan \in C
                     THEN [f[p] EXCEPT !.pc = f[p].then, !.then = "user", !.chan = NoBuf]
                     ELSE f[p]]

\* Process p is at pc and has the processor, or gets it.
At(p, pc) == cur \in {p, NoProc} /\ pr[p].pc = pc
Goto(p, pc) == pr' = [pr EXCEPT ![p].pc = pc] /\ cur' = p
Return(p) == [pr EXCEPT ![p] = Idle]

\* Sleep, and go on at then when woken.
Sleep(p, chan, then) ==
    /\ pr' = [pr EXCEPT ![p].pc = "asleep", ![p].chan = chan, ![p].then = then,
                        ![p].b = NoBuf]
    /\ cur' = NoProc

\* Mutated forms: B_DONE, and B_READ, of the last transfer stays.
WrittenDone(K, b) == [K EXCEPT !.buf[b].flags = @ \ {"READ", "ERROR", "DELWRI"}]
WrittenRead(K, b) == [K EXCEPT !.buf[b].flags = @ \ {"DONE", "ERROR", "DELWRI"}]

\* bwrite() hands the buffer to the driver.
Written(K, b) == [K EXCEPT !.buf[b].flags = @ \ {"READ", "DONE", "ERROR", "DELWRI"}]

\* A delayed write is started from the free list, and counted.
WriteBehind(p, b, why, then) ==
    /\ c' = Written(notavail([c EXCEPT !.buf[b].flags = @ \cup why], b), b)
    /\ io' = Append(io, b)
    /\ pr' = [pr EXCEPT ![p].pc = "asyncnt", ![p].then = then]
    /\ cur' = p
    /\ UNCHANGED <<basyncnt, disk>>

-----------------------------------------------------------------------------
\* The calls.  After the last close nobody else uses the device.

Start(p) ==
    /\ At(p, "user")
    /\ \A q \in Procs : pr[q].call # "close"
    /\ \E call \in Calls, x \in Blocks, y \in Blocks :
         LET called == [Idle EXCEPT !.call = call, !.blk = x]
         IN \/ /\ call \in {"bread", "getblk"}
               /\ pr' = [pr EXCEPT ![p] = [called EXCEPT !.pc = "search"]]
            \/ /\ call = "breada" /\ x # y
               /\ pr' = [pr EXCEPT ![p] = [called EXCEPT !.pc = IF incore(x) THEN "ra" ELSE "search",
                                                         !.ra = y]]
            \/ /\ call = "bflush"
               /\ pr' = [pr EXCEPT ![p] = [called EXCEPT !.pc = "bflush", !.blk = NoBlock]]
            \/ /\ call = "close" /\ \A q \in Procs : pr[q].pc = "user"
               /\ pr' = [pr EXCEPT ![p] = [called EXCEPT !.pc = "bflush", !.blk = NoBlock]]
            \/ /\ call = "blkflush"
               /\ pr' = [pr EXCEPT ![p] = [called EXCEPT !.pc = "blkflush"]]
    /\ cur' = p
    /\ UNCHANGED <<c, basyncnt, io, disk>>

-----------------------------------------------------------------------------
\* getblk()

\* Mutated form: with a new buffer at hand the chain is not searched again.
GetblkSearchOnce(p) ==
    /\ At(p, "search")
    /\ IF pr[p].nbp = NoBuf
       THEN pr' = [pr EXCEPT ![p].pc = "getfree"] /\ UNCHANGED c
       ELSE /\ c' = [c EXCEPT !.buf[pr[p].nbp] = [@ EXCEPT !.flags = {"BUSY"}, !.blkno = pr[p].blk]]
            /\ pr' = [pr EXCEPT ![p].pc = "got", ![p].b = pr[p].nbp, ![p].nbp = NoBuf]
    /\ cur' = p
    /\ UNCHANGED <<basyncnt, io, disk>>

\* The search of the hash chain, at spl0.
GetblkSearch(p) ==
    /\ At(p, "search")
    /\ \/ \E b \in Cached(pr[p].blk) :
            /\ pr' = [pr EXCEPT ![p].pc = "check", ![p].b = b]
            /\ UNCHANGED c
       \/ /\ ~incore(pr[p].blk) /\ pr[p].nbp = NoBuf
          /\ pr' = [pr EXCEPT ![p].pc = "getfree"]
          /\ UNCHANGED c
       \/ /\ ~incore(pr[p].blk) /\ pr[p].nbp # NoBuf
          /\ c' = [c EXCEPT !.buf[pr[p].nbp] = [@ EXCEPT !.flags = {"BUSY"}, !.blkno = pr[p].blk]]
          /\ pr' = [pr EXCEPT ![p].pc = "got", ![p].b = pr[p].nbp, ![p].nbp = NoBuf]
    /\ cur' = p
    /\ UNCHANGED <<basyncnt, io, disk>>

\* The buffer found is looked at again at spl6: sleep until it is free, or
\* take it and give back the new one.
GetblkCheck(p) ==
    LET b     == pr[p].b
        nbp   == pr[p].nbp
        taken == notavail([c EXCEPT !.buf[b].flags = @ \ {"AGE"}], b)
        given == [taken EXCEPT !.buf[nbp].flags = {"BUSY"}]
    IN /\ At(p, "check")
       /\ \/ /\ Is(b, "BUSY")
             /\ c' = [c EXCEPT !.buf[b].flags = @ \cup {"WANTED"}]
             /\ Sleep(p, b, "search")
          \/ /\ ~Is(b, "BUSY") /\ nbp = NoBuf
             /\ c' = taken
             /\ Goto(p, "got")
          \/ /\ ~Is(b, "BUSY") /\ nbp # NoBuf
             /\ c' = brelse(given, nbp)
             /\ pr' = wakeprocs([pr EXCEPT ![p].pc = "got", ![p].nbp = NoBuf],
                                IF c.wanted THEN {NoBuf} ELSE {})
             /\ cur' = p
       /\ UNCHANGED <<basyncnt, io, disk>>

\* A buffer is taken off its hash chain for another block, and its memory is
\* given back.  Mutated form: the memory is not counted.
Unhashed(K, b) == [notavail(K, b) EXCEPT !.buf[b].blkno = NoBlock]

FreedLost(K, b) == [Unhashed(K, b) EXCEPT !.buf[b] = NoBuffer]
Freed(K, b) ==
    [Unhashed(K, b) EXCEPT !.bufsize = @ + K.buf[b].bufsize, !.buf[b] = NoBuffer]

\* Is there too little memory?
Short(size) == c.bufsize < size

\* getfreeblk(), one turn of its loop: write out, reuse or free the oldest
\* free buffer, while memory is short or the buffer is aged.
Reclaim(p) ==
    LET b    == Head(c.free)
        size == bsize[pr[p].blk]
    IN /\ At(p, "getfree") \/ At(p, "reclaim")
       /\ c.free # <<>>
       /\ Short(size) \/ Is(b, "AGE")
       /\ \/ /\ Is(b, "DELWRI")
             /\ WriteBehind(p, b, {"ASYNC", "AGE"}, "getfree")
          \/ /\ ~Is(b, "DELWRI")
             /\ IF c.buf[b].bufsize = size
                THEN /\ c' = Unhashed(c, b)
                     /\ pr' = [pr EXCEPT ![p].pc = "search", ![p].nbp = b]
                ELSE /\ c' = Freed(c, b)
                     /\ pr' = [pr EXCEPT ![p].pc = "reclaim"]
             /\ cur' = p
             /\ UNCHANGED <<basyncnt, io, disk>>

\* The end of getfreeblk(): sleep for memory, or allocate a buffer, which may
\* have to wait in kmem_zalloc().
Allocate(p) ==
    LET size == bsize[pr[p].blk]
    IN /\ At(p, "getfree") \/ At(p, "reclaim")
       /\ c.free # <<>> => ~Short(size) /\ ~Is(Head(c.free), "AGE")
       /\ \/ /\ Short(size)
             /\ c' = [c EXCEPT !.wanted = TRUE]
             /\ Sleep(p, NoBuf, "search")
          \/ /\ ~Short(size)
             /\ \E h \in Headers, waits \in {FALSE, KmemSleeps} :
                  /\ c' = [c EXCEPT !.bufsize = @ - size, !.buf[h].bufsize = size]
                  /\ pr' = [pr EXCEPT ![p].pc = IF waits THEN "kmem" ELSE "search", ![p].nbp = h]
                  /\ cur' = IF waits THEN NoProc ELSE p
       /\ UNCHANGED <<basyncnt, io, disk>>

Kmem(p) ==
    /\ At(p, "kmem")
    /\ Goto(p, "search")
    /\ UNCHANGED <<c, basyncnt, io, disk>>

\* bread(), breada() and the callers of getblk() have their buffer: read it
\* if that has not been done.
Got(p) ==
    LET b    == pr[p].b
        read == [c EXCEPT !.buf[b].flags = @ \cup {"READ"} \cup
                             (IF pr[p].call = "ra" THEN {"ASYNC"} ELSE {})]
        start == c' = read /\ io' = Append(io, b)
        next(pc) == [pr EXCEPT ![p].pc = pc, ![p].bp = IF pr[p].call = "ra" THEN @ ELSE b,
                               ![p].b = NoBuf]
    IN /\ At(p, "got")
       /\ CASE pr[p].call = "getblk" ->
                 pr' = next("hold") /\ UNCHANGED <<c, io>>
            [] pr[p].call = "bread" /\ Is(b, "DONE") ->
                 pr' = next("hold") /\ UNCHANGED <<c, io>>
            [] pr[p].call = "bread" /\ ~Is(b, "DONE") -> start /\ pr' = next("iowait")
            [] pr[p].call = "breada" /\ Is(b, "DONE") ->
                 pr' = next("ra") /\ UNCHANGED <<c, io>>
            [] pr[p].call = "breada" /\ ~Is(b, "DONE") -> start /\ pr' = next("ra")
            [] pr[p].call = "ra" /\ Is(b, "DONE") ->
                 /\ c' = brelse(c, b)
                 /\ pr' = wakeprocs(next("raend"), Released(b))
                 /\ UNCHANGED io
            [] pr[p].call = "ra" /\ ~Is(b, "DONE") -> start /\ pr' = next("raend")
       /\ cur' = p
       /\ UNCHANGED <<basyncnt, disk>>

\* Mutated form: read ahead however few buffers are free.
ReadaheadAlways(p) ==
    LET x == pr[p].ra
    IN /\ At(p, "ra")
       /\ pr' = IF ~incore(x)
                THEN [pr EXCEPT ![p].pc = "search", ![p].call = "ra", ![p].ra = pr[p].blk, ![p].blk = x]
                ELSE [pr EXCEPT ![p].pc = "raend", ![p].ra = pr[p].blk]
       /\ cur' = p
       /\ UNCHANGED <<c, basyncnt, io, disk>>

\* The rest of breada(): read ahead if enough buffers are free, then wait for
\* the block itself, or get it after all.
Readahead(p) ==
    LET x == pr[p].ra
    IN /\ At(p, "ra")
       /\ pr' = IF Len(c.free) > 1 /\ ~incore(x)
                THEN [pr EXCEPT ![p].pc = "search", ![p].call = "ra", ![p].ra = pr[p].blk, ![p].blk = x]
                ELSE [pr EXCEPT ![p].pc = "raend", ![p].ra = pr[p].blk]
       /\ cur' = p
       /\ UNCHANGED <<c, basyncnt, io, disk>>

ReadaheadEnd(p) ==
    /\ At(p, "raend")
    /\ pr' = [pr EXCEPT ![p].pc = IF pr[p].bp = NoBuf THEN "search" ELSE "iowait",
                        ![p].call = "bread", ![p].blk = pr[p].ra, ![p].ra = NoBlock]
    /\ cur' = p
    /\ UNCHANGED <<c, basyncnt, io, disk>>

\* biowait(), and what follows it in bread() and in bwrite().
Biowait(p) ==
    LET b == pr[p].bp
    IN /\ At(p, "iowait")
       /\ \/ /\ ~Is(b, "DONE")
             /\ c' = [c EXCEPT !.buf[b].flags = @ \cup {"WANTED"}]
             /\ Sleep(p, b, "iowait")
          \/ /\ Is(b, "DONE") /\ pr[p].call = "bread"
             /\ Goto(p, "hold")
             /\ UNCHANGED c
          \/ /\ Is(b, "DONE") /\ pr[p].call = "write"
             /\ c' = brelse(c, b)
             /\ pr' = wakeprocs(Return(p), Released(b))
             /\ cur' = NoProc
          \/ /\ Is(b, "DONE") /\ pr[p].call = "blkflush"
             /\ c' = brelse(c, b)
             /\ pr' = wakeprocs([pr EXCEPT ![p].pc = "blkflush", ![p].bp = NoBuf], Released(b))
             /\ cur' = p
       /\ UNCHANGED <<basyncnt, io, disk>>

-----------------------------------------------------------------------------
\* The caller has the block: give it up as it is, or with new contents.

\* Before that it may sleep for something else, as ufs_bmap() does in alloc().
Elsewhere(p) ==
    /\ At(p, "hold")
    /\ cur' = NoProc
    /\ UNCHANGED <<c, basyncnt, pr, io, disk>>

Brelse(p) ==
    LET b == pr[p].bp
    IN /\ At(p, "hold")
       /\ c' = brelse(c, b)
       /\ pr' = wakeprocs(Return(p), Released(b))
       /\ cur' = NoProc
       /\ UNCHANGED <<basyncnt, io, disk>>

Bdwrite(p) ==
    LET b == pr[p].bp
    IN /\ At(p, "hold") /\ ~Is(b, "ERROR")
       /\ \E v \in Vals :
            c' = brelse([c EXCEPT !.buf[b].data = v,
                                  !.buf[b].flags = @ \cup {"DELWRI", "DONE"}], b)
       /\ pr' = wakeprocs(Return(p), Released(b))
       /\ cur' = NoProc
       /\ UNCHANGED <<basyncnt, io, disk>>

\* bwrite() and bawrite()
Bwrite(p) ==
    LET b == pr[p].bp
    IN /\ At(p, "hold") /\ ~Is(b, "ERROR")
       /\ \E v \in Vals, async \in BOOLEAN :
            /\ async => Len(c.free) > manyfree
            /\ c' = Written([c EXCEPT !.buf[b].data = v,
                               !.buf[b].flags = @ \cup (IF async THEN {"ASYNC"} ELSE {})], b)
            /\ pr' = IF async THEN [pr EXCEPT ![p] = [Idle EXCEPT !.pc = "asyncnt"]]
                              ELSE [pr EXCEPT ![p] = [Idle EXCEPT !.pc = "iowait", !.call = "write", !.bp = b]]
       /\ io' = Append(io, b)
       /\ cur' = p
       /\ UNCHANGED <<basyncnt, disk>>

\* The end of bwrite() when the write is asynchronous.
Asyncnt(p) ==
    /\ At(p, "asyncnt")
    /\ basyncnt' = basyncnt + 1
    /\ pr' = IF pr[p].then = "user" THEN Return(p)
             ELSE [pr EXCEPT ![p].pc = pr[p].then, ![p].then = "user"]
    /\ cur' = IF pr[p].then = "user" THEN NoProc ELSE p
    /\ UNCHANGED <<c, io, disk>>

-----------------------------------------------------------------------------
\* bflush(), fsflush() and the flush of a last close, with binval() at its end

\* The place of the first delayed write on the free list, or 0.
Delayed == SelectInSeq(c.free, LAMBDA b : Is(b, "DELWRI"))

Bflush(p) ==
    /\ At(p, "bflush")
    /\ Delayed # 0
    /\ WriteBehind(p, c.free[Delayed], {"ASYNC"}, "bflush")

\* The buffers that name a block no longer stand for it.
binval(K) ==
    [b \in Bufs |-> IF K.buf[b].blkno = NoBlock THEN K.buf[b]
                    ELSE [K.buf[b] EXCEPT !.flags = K.buf[b].flags \cup {"STALE", "AGE"}]]

Bflushed(p) ==
    /\ At(p, "bflush")
    /\ Delayed = 0
    /\ c' = IF pr[p].call = "close" THEN [c EXCEPT !.buf = binval(c)] ELSE c
    /\ pr' = Return(p)
    /\ cur' = NoProc
    /\ UNCHANGED <<basyncnt, io, disk>>

\* blkflush()
BlkflushSearch(p) ==
    /\ At(p, "blkflush")
    /\ \/ \E b \in Cached(pr[p].blk) : pr' = [pr EXCEPT ![p].pc = "blkcheck", ![p].b = b]
       \/ ~incore(pr[p].blk) /\ pr' = [pr EXCEPT ![p].pc = "flushed"]
    /\ cur' = p
    /\ UNCHANGED <<c, basyncnt, io, disk>>

\* Mutated form: a busy buffer is not waited for.
BlkflushCheckBusy(p) ==
    LET b == pr[p].b
    IN /\ At(p, "blkcheck")
       /\ IF ~Is(b, "BUSY") /\ Is(b, "DELWRI")
          THEN /\ c' = Written(notavail(c, b), b)
               /\ io' = Append(io, b)
               /\ pr' = [pr EXCEPT ![p].pc = "iowait", ![p].bp = b, ![p].b = NoBuf]
          ELSE /\ pr' = [pr EXCEPT ![p].pc = "flushed"]
               /\ UNCHANGED <<c, io>>
       /\ cur' = p
       /\ UNCHANGED <<basyncnt, disk>>

BlkflushCheck(p) ==
    LET b == pr[p].b
    IN /\ At(p, "blkcheck")
       /\ \/ /\ Is(b, "BUSY")
             /\ c' = [c EXCEPT !.buf[b].flags = @ \cup {"WANTED"}]
             /\ Sleep(p, b, "blkflush")
             /\ UNCHANGED io
          \/ /\ ~Is(b, "BUSY") /\ Is(b, "DELWRI")
             /\ c' = Written(notavail(c, b), b)
             /\ io' = Append(io, b)
             /\ pr' = [pr EXCEPT ![p].pc = "iowait", ![p].bp = b, ![p].b = NoBuf]
             /\ cur' = p
          \/ /\ ~Is(b, "BUSY") /\ ~Is(b, "DELWRI")
             /\ Goto(p, "flushed")
             /\ UNCHANGED <<c, io>>
       /\ UNCHANGED <<basyncnt, disk>>

BlkflushEnd(p) ==
    /\ At(p, "flushed")
    /\ pr' = Return(p)
    /\ cur' = NoProc
    /\ UNCHANGED <<c, basyncnt, io, disk>>

-----------------------------------------------------------------------------
\* A transfer ends: the driver's interrupt, and biodone().  Transfers of one
\* block end in the order in which they were asked for.

InterruptsOn == ~\E p \in Procs : cur = p /\ pr[p].pc = "reclaim"

Done(b, ok) ==
    LET r == c.buf[b]
    IN [c EXCEPT !.buf[b].data = IF "READ" \notin r.flags THEN @
                                 ELSE IF ok THEN disk[r.blkno] ELSE NoVal,
                 !.buf[b].flags = @ \cup {"DONE"} \cup (IF ok THEN {} ELSE {"ERROR"})]

\* Mutated form: the end of a read ahead is counted as well.
biodoneReads(b, K) ==
    IF "ASYNC" \in K.buf[b].flags
    THEN /\ basyncnt' = basyncnt - 1
         /\ c' = brelse(K, b)
         /\ pr' = wakeprocs(pr, Released(b))
    ELSE /\ c' = [K EXCEPT !.buf[b].flags = @ \ {"WANTED"}]
         /\ pr' = wakeprocs(pr, {b})
         /\ UNCHANGED basyncnt

biodone(b, K) ==
    IF "ASYNC" \in K.buf[b].flags
    THEN /\ basyncnt' = IF Is(b, "READ") THEN basyncnt ELSE basyncnt - 1
         /\ c' = brelse(K, b)
         /\ pr' = wakeprocs(pr, Released(b))
    ELSE /\ c' = [K EXCEPT !.buf[b].flags = @ \ {"WANTED"}]
         /\ pr' = wakeprocs(pr, {b})
         /\ UNCHANGED basyncnt

IoDone(b) ==
    /\ InterruptsOn
    /\ \E i \in DOMAIN io :
         /\ io[i] = b
         /\ \A j \in 1..(i - 1) : c.buf[io[j]].blkno # c.buf[b].blkno
    /\ \E ok \in {TRUE, c.buf[b].blkno \notin IoErrors} :
         /\ biodone(b, Done(b, ok))
         /\ disk' = IF ok /\ ~Is(b, "READ") THEN [disk EXCEPT ![c.buf[b].blkno] = c.buf[b].data]
                    ELSE disk
    /\ io' = RemoveFirst(io, b)
    /\ UNCHANGED cur

Step(p) ==
    \/ GetblkSearch(p) \/ GetblkCheck(p) \/ Reclaim(p) \/ Allocate(p) \/ Kmem(p) \/ Got(p)
    \/ Readahead(p) \/ ReadaheadEnd(p) \/ Biowait(p)
    \/ Elsewhere(p) \/ Brelse(p) \/ Bdwrite(p) \/ Bwrite(p) \/ Asyncnt(p)
    \/ Bflush(p) \/ Bflushed(p) \/ BlkflushSearch(p) \/ BlkflushCheck(p) \/ BlkflushEnd(p)

Next ==
    \/ \E p \in Procs : Start(p) \/ Step(p)
    \/ \E b \in Bufs : IoDone(b)

Spec == Init /\ [][Next]_vars

-----------------------------------------------------------------------------
(***************************************************************************)
(* Properties.                                                             *)
(***************************************************************************)

\* The buffers that a process has taken and will give back.
Owned(p) == {pr[p].bp, pr[p].nbp, IF pr[p].pc = "got" THEN pr[p].b ELSE NoBuf} \ {NoBuf}

\* A buffer is on the free list, once, if and only if it is not busy
\* (buf.h:24-26); a busy one belongs to one process, or to a driver that will
\* release it when the transfer is done.
BusyOrFree ==
    /\ \A i, j \in DOMAIN c.free : c.free[i] = c.free[j] => i = j
    /\ \A b \in Bufs \ Headers :
         LET owners == {p \in Procs : b \in Owned(p)}
             async  == b \in ToSet(io) /\ Is(b, "ASYNC")
         IN IF b \in ToSet(c.free) THEN ~Is(b, "BUSY") /\ owners = {} /\ b \notin ToSet(io)
            ELSE IF async THEN owners = {}
            ELSE Cardinality(owners) = 1

\* Buffers have their types and their places (struct buf, bfreelist).
BuffersOK == TypeOK /\ BusyOrFree

\* Two buffers never stand for one block: getblk() looks again at the hash
\* chain after everything that may have slept (bio.c:438-444).
OneBufferPerBlock == \A x \in Blocks : Cardinality(Cached(x)) <= 1

\* Memory is neither lost nor used twice (b_bufsize in getfreeblk()).
MemoryAccounted ==
    c.bufsize + MapThenSumSet(LAMBDA b : c.buf[b].bufsize, Bufs) = v_bufhwm

\* Who sleeps will be woken: on a buffer that is busy and marked wanted, and
\* for a transfer only while it is under way; on the free list only while it
\* is empty and marked wanted (the sleeps at bio.c:342, 418, 577 and 687
\* against brelse() and biodone()).
NoLostWakeup ==
    \A p \in Procs : pr[p].pc = "asleep" =>
        LET b == pr[p].chan
        IN IF b = NoBuf THEN c.wanted /\ c.free = <<>>
           ELSE /\ Is(b, "BUSY") /\ Is(b, "WANTED")
                /\ pr[p].then = "iowait" => b \in ToSet(io) /\ ~Is(b, "DONE")

\* No set of processes sleeps on buffers, or on memory, that only they can
\* release: a process sleeps for its second buffer in breada(), and in
\* getblk() with the buffer that it does not need (bio.c:137, 418).
Deadlocked(S) ==
    /\ S # {}
    /\ \A p \in S :
         /\ pr[p].pc = "asleep"
         /\ IF pr[p].chan # NoBuf
            THEN pr[p].chan \notin ToSet(io) /\ \E q \in S : pr[p].chan \in Owned(q)
            ELSE io = <<>> /\ \A q \in Procs : Owned(q) # {} => q \in S

NoDeadlock == \A S \in SUBSET Procs : ~Deadlocked(S)

\* Nobody sleeps for ever in bio.c: neither forgotten nor in a circle.
NobodyStuck == NoLostWakeup /\ NoDeadlock

\* basyncnt is the number of asynchronous writes under way, but for those not
\* counted yet by the process that has started them (bio.c:174, 736).
AsyncWritesCounted ==
    basyncnt + Cardinality({p \in Procs : pr[p].pc = "asyncnt"})
        = Cardinality({b \in ToSet(io) : Is(b, "ASYNC") /\ ~Is(b, "READ")})

\* A transfer is not started for a buffer whose last one has been found done,
\* as biodone() asserts (bio.c:720), and no buffer is with a driver twice.
TransferOnce ==
    /\ \A i, j \in DOMAIN io : io[i] = io[j] => i = j
    /\ \A i \in DOMAIN io : Is(io[i], "BUSY") /\ ~Is(io[i], "DONE")

\* Who gets a block from bread() without B_ERROR has its contents, not what a
\* failed read has left in the buffer (bio.c:88-90, 495-497).
ReadIsValid ==
    \A p \in Procs : pr[p].pc = "hold" /\ pr[p].call = "bread" /\ ~Is(pr[p].bp, "ERROR") =>
        c.buf[pr[p].bp].data # NoVal
=============================================================================
