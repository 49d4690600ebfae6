---------------------------- MODULE FreezerTable ----------------------------
(***************************************************************************)
(* One table of the ancient store (core/rawdb/freezer_table.go), its write *)
(* batch (freezer_batch.go) and its metadata file (freezer_meta.go), as    *)
(* operators on a table record                                             *)
(*                                                                         *)
(*   file, disk : the content of the files of the table as the process     *)
(*                sees it, and as the last fsync of each file left it:     *)
(*                index (a sequence of entries, the first one the tail     *)
(*                entry), data (per file number, its cells), vtail and     *)
(*                flush (the metadata)                                     *)
(*   items, offset, hidden, tailId, headId, headBytes : the fields of      *)
(*                freezerTable                                             *)
(*                                                                         *)
(* An item is a sequence of cells, at most MaxFileSize of them.  flush     *)
(* counts index entries instead of bytes, so a partially written entry     *)
(* (cut off by repair) is not represented.  A missing data file and an     *)
(* empty one are the same.                                                 *)
(*                                                                         *)
(* An operation that changes several files is the sequence of states it    *)
(* goes through: its last element is its result, and any element may be    *)
(* what a power failure finds.                                             *)
(***************************************************************************)
EXTENDS Integers, Sequences, FiniteSets, SequencesExt, FiniteSetsExt

CONSTANTS
    MaxFileSize,    \* maxFileSize, in cells
    MaxFile,        \* bound on file numbers
    Garbage         \* a cell a power failure leaves behind

ASSUME FileAssumption == MaxFileSize \in Nat \ {0} /\ MaxFile \in Nat

FileIds == 0..MaxFile

Entry(f, o) == [file |-> f, off |-> o]

\* The index entry a power failure leaves behind is usually all zero.
ZeroEntry == Entry(0, 0)

EmptyFiles == [index |-> <<>>, data |-> [f \in FileIds |-> <<>>],
               vtail |-> 0, flush |-> 0]

\* A table whose files have not been read yet.
UnopenedTable(files) ==
    [file |-> files, disk |-> files, items |-> 0, offset |-> 0, hidden |-> 0,
     tailId |-> 0, headId |-> 0, headBytes |-> 0]

-----------------------------------------------------------------------------
(* Metadata and fsync. *)

\* freezerTableMeta.write(true): the whole record is written and synced.
SyncMeta(t) == [t EXCEPT !.disk.vtail = t.file.vtail, !.disk.flush = t.file.flush]

SetFlushOffset(t, n) == SyncMeta([t EXCEPT !.file.flush = n])

SetVirtualTail(t, n, sync) ==
    LET u == [t EXCEPT !.file.vtail = n]
    IN IF sync THEN SyncMeta(u) ELSE u

SyncIndex(t) == [t EXCEPT !.disk.index = t.file.index]
SyncHead(t)  == [t EXCEPT !.disk.data[t.headId] = t.file.data[t.headId]]

\* doSync: both files are synced, then the flush offset is moved to the end
\* of the index file, whatever its size is by then.
FsyncFiles(t)   == SyncHead(SyncIndex(t))
RecordOffset(t) == SetFlushOffset(t, Len(t.file.index))
\* Mutant doSync: the flush offset is recorded before the data file is synced.
MutSyncIndexOnly(t) == RecordOffset(SyncIndex(t))
DoSync(t)       == RecordOffset(FsyncFiles(t))

-----------------------------------------------------------------------------
(* Reading. *)

\* The file and the end of the last item among the first n index entries.
LastEntry(t, n) == IF n = 1 THEN Entry(t.tailId, 0) ELSE t.file.index[n]

\* Retrieve, through getIndices and bounds: an item starts where the one
\* before it ends, or at the start of its file.
Retrieve(t, n) ==
    LET i     == n - t.offset
        first == t.file.index[i + 1]
        last  == t.file.index[i + 2]
        start == IF i = 0 \/ first.file # last.file THEN 0 ELSE first.off
    IN SubSeq(t.file.data[last.file], start + 1, last.off)

-----------------------------------------------------------------------------
(* Appending.  A batch is [data, index, cur]: the buffered cells, the       *)
(* buffered index entries and the number of the next item.                 *)

NewBatch(t) == [data |-> <<>>, index |-> <<>>, cur |-> t.items]

WriteData(t, b)  == [t EXCEPT !.file.data[t.headId] = @ \o b.data]
WriteIndex(t, b) == [t EXCEPT !.file.index = @ \o b.index]

\* freezerTableBatch.commit: data first, index second, counters last.
Commit(t, b) == [WriteIndex(WriteData(t, b), b) EXCEPT
                    !.headBytes = @ + Len(b.data), !.items = b.cur]
Committed(b) == [b EXCEPT !.data = <<>>, !.index = <<>>]

\* advanceHead: everything written so far is synced, the next file is
\* created empty even when a file of that number was left behind.
AdvanceHead(t) ==
    [DoSync(t) EXCEPT !.headId = @ + 1, !.headBytes = 0,
                      !.file.data[t.headId + 1] = <<>>]

\* appendItem on a table and its batch: when the item does not fit, the
\* batch is committed and the head advanced first.
AppendItem(tb, blob) ==
    LET pos  == tb.t.headBytes + Len(tb.b.data)
        fits == pos + Len(blob) <= MaxFileSize
        t    == IF fits THEN tb.t ELSE AdvanceHead(Commit(tb.t, tb.b))
        b    == IF fits THEN tb.b ELSE Committed(tb.b)
        end  == (IF fits THEN pos ELSE 0) + Len(blob)
    IN [t |-> t,
        b |-> [data  |-> b.data \o blob,
               index |-> Append(b.index, Entry(t.headId, end)),
               cur   |-> b.cur + 1]]

AppendItems(t, blobs) ==
    FoldLeft(AppendItem, [t |-> t, b |-> NewBatch(t)], blobs)

-----------------------------------------------------------------------------
(* Truncation. *)

\* The data files with the numbers in gone are deleted.
Delete(data, gone) == [f \in FileIds |-> IF f \in gone THEN <<>> ELSE data[f]]

\* Mutant truncateHead: the flush offset stays where it was.
MutFlushKept(t, n) ==
    IF n >= t.items THEN <<t>> ELSE
    LET len == n - t.offset + 1
        cut == [t EXCEPT !.file.index = SubSeq(@, 1, len)]
        exp == LastEntry(cut, len)
        drp == [SyncIndex(cut) EXCEPT !.headId = exp.file,
                    !.file.data = Delete(@, {f \in FileIds : f > exp.file})]
        trm == [drp EXCEPT !.file.data[exp.file] = SubSeq(@, 1, exp.off)]
    IN <<cut, drp, trm, [SyncHead(trm) EXCEPT !.headBytes = exp.off, !.items = n]>>
\* truncateHead(n) for hidden <= n: the index is cut and synced, the flush
\* offset lowered, later files removed, the head file cut and synced.
TruncateHeadStages(t, n) ==
    IF n >= t.items THEN <<t>> ELSE
    LET len == n - t.offset + 1
        cut == [t EXCEPT !.file.index = SubSeq(@, 1, len)]
        syn == SyncIndex(cut)
        low == IF t.file.flush > len THEN SetFlushOffset(syn, len) ELSE syn
        exp == LastEntry(low, len)
        drp == IF exp.file = t.headId THEN low
               ELSE [low EXCEPT !.headId = exp.file,
                        !.file.data = Delete(@, {f \in FileIds : f > exp.file})]
        trm == [drp EXCEPT !.file.data[exp.file] = SubSeq(@, 1, exp.off)]
    IN <<cut, syn, low, drp, trm,
         [SyncHead(trm) EXCEPT !.headBytes = exp.off, !.items = n]>>

\* Whether truncateHead(n) and truncateTail(n) return nil.
TruncateHeadOk(t, n) == n >= t.items \/ n >= t.hidden
TruncateTailOk(t, n) == n <= t.hidden \/ n <= t.items

\* The number of items whose files all lie before file f: the items of file
\* f below n stay in the index although they are hidden.
NewDeleted(t, n, f) ==
    Min({n} \cup {m \in t.offset..(n - 1) :
                    \A k \in m..(n - 1) : t.file.index[k - t.offset + 2].file = f})

\* truncateTail(n) for n <= items: the items below n are hidden, without a
\* sync; when they no longer need the tail file the table is synced, the
\* index replaced by a shortened copy (renamed over it in one step), the
\* files before the new tail are removed and the flush offset is moved back.
TruncateTailStages(t, n) ==
    IF n <= t.hidden THEN <<t>> ELSE
    LET new == IF n = t.items THEN t.headId
               ELSE t.file.index[n - t.offset + 2].file
        hid == [SetVirtualTail(t, n, FALSE) EXCEPT !.hidden = n]
        syn == DoSync(hid)
        del == NewDeleted(t, n, new)
        idx == <<Entry(new, del)>> \o SubSeq(t.file.index, del - t.offset + 2, Len(t.file.index))
        rew == [syn EXCEPT !.file.index = idx, !.disk.index = idx, !.tailId = new,
                           !.offset = del, !.file.data = Delete(@, {f \in FileIds : f < new})]
    IN IF new = t.tailId THEN <<hid>>
       ELSE <<hid, syn, rew, SetFlushOffset(rew, rew.file.flush - (del - t.offset))>>

-----------------------------------------------------------------------------
(* Power failures. *)

\* What a failure can leave of a file last synced as old and now being new:
\* a truncation may have been undone, an extension may be lost from some
\* point on, and any cell of it may still be garbage.
CrashedFile(old, new, garbage) ==
    LET same == Len(LongestCommonPrefix({old, new}))
        undone == {SubSeq(old, 1, k) : k \in same..Len(old)}
        grown  == UNION {{SubSeq(new, 1, same) \o
                            [i \in 1..k |-> IF i \in lost THEN garbage ELSE new[same + i]]
                          : lost \in SUBSET (1..k)}
                         : k \in 1..(Len(new) - same)}
    IN undone \cup grown

\* The data files of t that a power failure can leave behind.
CrashedData(t) ==
    LET lost(f) == CrashedFile(t.disk.data[f], t.file.data[f], Garbage)
        unsynced == {f \in FileIds : t.disk.data[f] # t.file.data[f]}
        left == {g \in [unsynced -> UNION {lost(f) : f \in unsynced}] :
                    \A f \in unsynced : g[f] \in lost(f)}
    IN {g @@ t.file.data : g \in left}

\* The contents of all the files of t that a power failure can leave behind;
\* the metadata record is written by one call and is the old or the new one.
CrashImages(t) ==
    {[index |-> i, data |-> d, vtail |-> m.vtail, flush |-> m.flush] :
        i \in CrashedFile(t.disk.index, t.file.index, ZeroEntry),
        d \in CrashedData(t),
        m \in {t.disk, t.file}}

-----------------------------------------------------------------------------
(* Opening: newTable and repair. *)

\* checkIndexItems
InOrder(a, b) ==
    /\ b.file \in {a.file, a.file + 1}
    /\ b.file = a.file => b.off >= a.off
    /\ b.file = a.file + 1 => b.off # 0

\* checkIndex: the entries before the first one that is out of order.  The
\* first entry after the tail entry is only held to the tail's file or the
\* next one.
CheckIndex(index) ==
    LET bad == {k \in 2..Len(index) :
                  IF k = 2 THEN index[2].file \notin {index[1].file, index[1].file + 1}
                  ELSE ~InOrder(index[k - 1], index[k])}
    IN IF bad = {} THEN index ELSE SubSeq(index, 1, Min(bad) - 1)

\* Mutant repairIndex: entries beyond the flush offset are kept.
MutIndexKept(t) ==
    LET idx  == CheckIndex(t.file.index)
        chk  == [t EXCEPT !.file.index = idx]
    IN IF Len(idx) < t.file.flush THEN SetFlushOffset(chk, Len(idx)) ELSE chk
\* repairIndex: after checkIndex the index is cut at the flush offset, or the
\* flush offset moved back to the end of a shorter index.
RepairIndex(t) ==
    LET idx == CheckIndex(t.file.index)
        chk == [t EXCEPT !.file.index = idx]
        n   == t.file.flush
    IN CASE Len(idx) = 1 /\ n = 0 -> SetFlushOffset(chk, 1)
         [] Len(idx) = n          -> chk
         [] Len(idx) > n          -> [chk EXCEPT !.file.index = SubSeq(idx, 1, n)]
         [] OTHER                 -> SetFlushOffset(chk, Len(idx))

\* The alignment loop of repair: index entries pointing past the end of their
\* file are dropped one by one, then the head file is cut at the last entry.
AlignHead(t) ==
    LET fits(k) == LastEntry(t, k).off <= Len(t.file.data[LastEntry(t, k).file])
        len == Max({k \in 1..Len(t.file.index) : fits(k)})
        exp == LastEntry(t, len)
        cut == [t EXCEPT !.file.index = SubSeq(@, 1, len), !.headId = exp.file,
                         !.headBytes = exp.off,
                         !.file.data[exp.file] = SubSeq(@, 1, exp.off)]
    IN IF t.file.flush > len THEN SetFlushOffset(cut, len) ELSE cut

\* newTable and repair on the files left by the last run.
RepairStages(files) ==
    LET raw == UnopenedTable(files)
        ini == IF files.index = <<>> THEN [raw EXCEPT !.file.index = <<ZeroEntry>>] ELSE raw
        chk == RepairIndex(ini)
        off == chk.file.index[1].off
        vir == IF off > chk.file.vtail THEN SetVirtualTail(chk, off, TRUE) ELSE chk
        opn == [vir EXCEPT !.tailId = vir.file.index[1].file, !.offset = off,
                           !.hidden = vir.file.vtail]
        aln == AlignHead(opn)
        fin == SyncMeta(FsyncFiles(aln))
    IN <<raw, ini, chk, vir, aln, [fin EXCEPT !.items = off + Len(fin.file.index) - 1]>>
=============================================================================
