--------------------------- MODULE BioRefinement ----------------------------
(***************************************************************************)
(* Bio implements BioSpec, as long as no transfer fails: the contents of a *)
(* block are in its buffer if that is valid, else on their way to the disk *)
(* or there.                                                               *)
(***************************************************************************)
EXTENDS Bio

Valid(b)  == Is(b, "DONE") \/ (b \in ToSet(io) /\ ~Is(b, "READ"))
Writes(b, x) == c.buf[b].blkno = x /\ ~Is(b, "READ")
\* The place of the last write of the block that is under way, or 0.
LastWrite(x) == SelectLastInSeq(io, LAMBDA b : Writes(b, x))

AbsStore ==
    [x \in Blocks |->
        LET valid == {b \in Cached(x) : Valid(b)}
        IN IF valid # {} THEN c.buf[CHOOSE b \in valid : TRUE].data
           ELSE IF LastWrite(x) # 0 THEN c.buf[io[LastWrite(x)]].data
           ELSE disk[x]]

HasBlock(p, x) == pr[p].pc = "hold" /\ c.buf[pr[p].bp].blkno = x

AbsUser ==
    [x \in Blocks |-> IF \E p \in Procs : HasBlock(p, x)
                      THEN CHOOSE p \in Procs : HasBlock(p, x) ELSE NoProc]

AbsView ==
    [p \in Procs |-> IF pr[p].pc = "hold" /\ pr[p].call = "bread"
                     THEN c.buf[pr[p].bp].data ELSE NoVal]

Abs == INSTANCE BioSpec WITH store <- AbsStore, user <- AbsUser, view <- AbsView

\* Whatever is cached, delayed, read ahead, reclaimed, flushed or invalidated,
\* a block has one user at a time, who finds what was last written to it.
ImplementsBioSpec == Abs!Spec

\* When blkflush() returns the block is up to date on the disk, as its
\* comment says (bio.c:554-556), unless the write was under way when the
\* device was closed: binval() hides it from whoever opens the device next.
FlushedOnReturn ==
    \A p \in Procs : pr[p].pc = "flushed" =>
        \/ disk[pr[p].blk] = AbsStore[pr[p].blk]
        \/ \E b \in ToSet(io) : Writes(b, pr[p].blk) /\ Is(b, "STALE")
=============================================================================
