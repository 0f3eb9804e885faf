-------------------------- MODULE SysRuntimeProofs --------------------------
(***************************************************************************)
(* The handle tables of a runtime session, for every size of the tables    *)
(* and every number of calls: files and directories here, the children and *)
(* the timeouts by the steps of SysProcProofs and SysNetProofs.            *)
(***************************************************************************)
EXTENDS SysRuntime, SysProcProofs, SysNetProofs, FiniteSetTheorems, TLAPS

\* What the heaps hand out is one of their ids.
LEMMA LowestIsMember ==
  ASSUME NEW S \in SUBSET Nat, S # {}
  PROVE  Lowest(S) \in S
  BY LowestExists, Zenon DEF Lowest

\* The partition, with marks that stay within their ranges.
FsInv ==
  /\ next_file \in 1..(MaxFsHandles + 1)
  /\ next_dir \in DirHandleBase..(DirHandleBase + MaxFsHandles)
  /\ HandlesPartition

LEMMA FilesInitInv == FilesInit => FsInv
  BY FilesAssumption DEF FilesInit, FsInv, HandlesPartition, DirHandleBase

\* Every id that is open or recycled is in the range of its table.
LEMMA IdsInRange ==
  ASSUME FsInv
  PROVE  /\ free_file \in SUBSET Nat /\ file_handles \subseteq FileId
         /\ free_dir \in SUBSET Nat /\ dir_handles \subseteq DirId
  BY FilesAssumption DEF FsInv, HandlesPartition, FileId, DirId, DirHandleBase

\* When the table is not full alloc_file has an id to give: the two ways in which the
\* code counts agree.
LEMMA CapacityAgrees ==
  ASSUME FsInv, Cardinality(file_handles) < MaxFsHandles
  PROVE  CanAllocFile
<1> SUFFICES ASSUME free_file = {}, ~(next_file <= MaxFsHandles) PROVE FALSE
  BY Zenon DEF CanAllocFile
<1>1. next_file - 1 = MaxFsHandles /\ MaxFsHandles \in Nat
  BY FilesAssumption DEF FsInv
<1>2. file_handles = 1..MaxFsHandles
  BY <1>1 DEF FsInv, HandlesPartition
<1>3. Cardinality(1..MaxFsHandles) = MaxFsHandles
  BY <1>1, FS_Interval
<1> QED BY <1>1, <1>2, <1>3

LEMMA AllocKeepsInv ==
  ASSUME FsInv, NEW handle, CanAllocFile, alloc_file(handle), UNCHANGED dirVars
  PROVE  FsInv'
<1>1. CASE free_file # {}
  <2>1. PICK low : low = Lowest(free_file)
    OBVIOUS
  <2>2. low \in free_file
    BY <1>1, <2>1, IdsInRange, LowestIsMember, Zenon
  <2>3. file_handles' = file_handles \cup {low} /\ free_file' = free_file \ {low} /\ next_file' = next_file
    BY <1>1, <2>1 DEF alloc_file, Inserts
  <2> QED BY <2>2, <2>3 DEF FsInv, HandlesPartition, dirVars
<1>2. CASE free_file = {}
  <2>1. next_file <= MaxFsHandles
    BY <1>2, Zenon DEF CanAllocFile
  <2>2. file_handles' = file_handles \cup {next_file} /\ free_file' = {} /\ next_file' = next_file + 1
    BY <1>2 DEF alloc_file, Inserts
  <2>3. file_handles = 1..(next_file - 1) /\ next_file \in Nat \ {0}
    BY <1>2, FilesAssumption DEF FsInv, HandlesPartition
  <2>4. file_handles' = 1..(next_file' - 1)
    BY <2>2, <2>3
  <2> QED BY <2>1, <2>2, <2>3, <2>4, FilesAssumption DEF FsInv, HandlesPartition, dirVars
<1> QED BY <1>1, <1>2

\* Nothing but the tables is in the invariant.
LEMMA TablesKept ==
  ASSUME FsInv, UNCHANGED <<file_handles, free_file, next_file, dirVars>>
  PROVE  FsInv'
  BY DEF FsInv, HandlesPartition, dirVars

LEMMA OpenFileStep ==
  ASSUME FsInv, NEW p \in Path, NEW asked, fs_open_file(p, asked)
  PROVE  FsInv' /\ (returned'.is = "exhausted" => UNCHANGED <<disk, contents>>)
<1>1. CASE FsRefuses("error") \/ FsRefuses("exhausted")
  <2>1. UNCHANGED <<disk, contents, file_handles, free_file, next_file, dirVars>>
    BY <1>1 DEF FsRefuses, fileVars
  <2> QED BY <2>1, TablesKept, Zenon
<1>2. CASE /\ Cardinality(file_handles) < MaxFsHandles
           /\ IF CanAllocFile
              THEN /\ alloc_file([file |-> disk'[p], at |-> 0, flags |-> Normalized(asked)])
                   /\ FsReturns("handle", <<>>)
              ELSE UNCHANGED fileVars /\ FsReturns("exhausted", <<>>)
           /\ UNCHANGED dirVars
  <2>1. CanAllocFile
    BY <1>2, CapacityAgrees, Zenon
  <2>2. FsInv'
    BY <1>2, <2>1, AllocKeepsInv
  <2>3. returned'.is = "handle"
    BY <1>2, <2>1 DEF FsReturns
  <2> QED BY <2>2, <2>3
<1> QED BY <1>1, <1>2 DEF fs_open_file

\* A call that leaves the tables alone and is not refused for want of a handle.
Harmless == /\ UNCHANGED <<file_handles, free_file, next_file, dirVars>>
            /\ returned'.is # "exhausted"

LEMMA RefusalsAreHarmless ==
  ASSUME NEW is, is # "exhausted", FsRefuses(is)
  PROVE  Harmless
  BY Zenon DEF FsRefuses, FsReturns, fileVars, Harmless

LEMMA MovesAreHarmless ==
  ASSUME NEW h, NEW at, MovesTo(h, at), returned'.is # "exhausted"
  PROVE  Harmless
  BY DEF MovesTo, Harmless

LEMMA OtherPathCalls ==
  ASSUME NEW p \in Path, PathCalls(p), ~(\E flags \in OpenFlags : fs_open_file(p, flags))
  PROVE  Harmless
<1>1. ASSUME NEW text \in Texts, fs_write_text(p, text) \/ fs_append_text(p, text) PROVE Harmless
  BY <1>1 DEF fs_write_text, fs_append_text, FsReturns, fileVars, Harmless
<1>2. CASE fs_remove_file(p)
  BY <1>2, RefusalsAreHarmless DEF fs_remove_file, FsReturns, fileVars, Harmless
<1>3. ASSUME NEW dst \in Path, fs_rename(p, dst) PROVE Harmless
  BY <1>3, RefusalsAreHarmless DEF fs_rename, FsReturns, fileVars, Harmless
<1>4. ASSUME NEW dst \in Path, fs_copy_file(p, dst) PROVE Harmless
  BY <1>4, RefusalsAreHarmless DEF fs_copy_file, FsReturns, fileVars, Harmless
<1>5. ASSUME NEW dst \in Path, fs_hard_link(p, dst) PROVE Harmless
  BY <1>5, RefusalsAreHarmless DEF fs_hard_link, FsReturns, fileVars, Harmless
<1> QED BY <1>1, <1>2, <1>3, <1>4, <1>5, Zenon DEF PathCalls

LEMMA CloseFileStep ==
  ASSUME FsInv, NEW h, fs_close_file(h)
  PROVE  FsInv' /\ returned'.is # "exhausted"
  BY DEF fs_close_file, FsReturns, FsInv, HandlesPartition, dirVars

LEMMA OtherFileCalls ==
  ASSUME NEW h \in FileId, FileCalls(h), ~fs_close_file(h)
  PROVE  Harmless
<1>1. CASE FsUnknown(h) \/ fs_file_flush(h)
  BY <1>1, RefusalsAreHarmless DEF FsUnknown, fs_file_flush
<1>2. CASE fs_file_read_all_text(h)
  BY <1>2, RefusalsAreHarmless, MovesAreHarmless DEF fs_file_read_all_text, FsReturns
<1>3. CASE fs_file_read_line(h)
  <2>1. CASE FsRefuses("error")
    BY <2>1, RefusalsAreHarmless
  <2>2. ASSUME NEW at, NEW n, NEW text, MovesTo(h, at + n),
               IF n = 0 THEN FsReturns("null", <<>>) ELSE FsReturnsText(text)
        PROVE  Harmless
    BY <2>2, MovesAreHarmless DEF FsReturnsText, FsReturns
  <2> QED BY <1>3, <2>1, <2>2, Zenon DEF fs_file_read_line
<1>4. ASSUME NEW n, fs_file_read_bytes(h, n) PROVE Harmless
  BY <1>4, RefusalsAreHarmless, MovesAreHarmless DEF fs_file_read_bytes, FsReturns
<1>5. ASSUME NEW text, fs_file_write(h, text) PROVE Harmless
  BY <1>5, RefusalsAreHarmless DEF fs_file_write, FsReturns, Harmless
<1>6. ASSUME NEW offset, NEW whence, fs_file_seek(h, offset, whence) PROVE Harmless
  BY <1>6, RefusalsAreHarmless, MovesAreHarmless DEF fs_file_seek, FsReturns
<1> QED BY <1>1, <1>2, <1>3, <1>4, <1>5, <1>6, Zenon DEF FileCalls

LEMMA DirCallStep ==
  ASSUME FsInv, DirCalls
  PROVE  FsInv' /\ UNCHANGED <<disk, contents>>
<1>1. CASE fs_open_dir
  <2>1. CASE free_dir # {}
    <3>1. PICK low : low = Lowest(free_dir)
      BY Zenon
    <3>2. low \in free_dir
      BY <2>1, <3>1, IdsInRange, LowestIsMember
    <3>3. dir_handles' = dir_handles \cup {low} /\ free_dir' = free_dir \ {low} /\ next_dir' = next_dir
      BY <1>1, <2>1, <3>1 DEF fs_open_dir
    <3>4. UNCHANGED <<disk, contents, file_handles, free_file, next_file>>
      BY <1>1 DEF fs_open_dir, fileVars
    <3> QED BY <3>2, <3>3, <3>4 DEF FsInv, HandlesPartition
  <2>2. CASE free_dir = {}
    BY <1>1, <2>2, FilesAssumption DEF fs_open_dir, fileVars, dirVars, FsInv, HandlesPartition, DirHandleBase
  <2> QED BY <2>1, <2>2
<1>2. ASSUME NEW h \in DirId, fs_close_dir(h) PROVE FsInv' /\ UNCHANGED <<disk, contents>>
  BY <1>2, Zenon DEF fs_close_dir, FsRefuses, fileVars, dirVars, FsInv, HandlesPartition
<1> QED BY <1>1, <1>2, Zenon DEF DirCalls

LEMMA FilesStep ==
  ASSUME FsInv, FilesNext \/ UNCHANGED filesVars
  PROVE  FsInv' /\ (UNCHANGED filesVars \/ (returned'.is = "exhausted" => UNCHANGED <<disk, contents>>))
<1>1. CASE UNCHANGED filesVars
  BY <1>1, TablesKept DEF filesVars, fileVars
<1>2. ASSUME Harmless PROVE FsInv' /\ returned'.is # "exhausted"
  BY <1>2, TablesKept DEF Harmless
<1>3. ASSUME NEW h \in FileId, FileCalls(h)
      PROVE  FsInv' /\ (returned'.is = "exhausted" => UNCHANGED <<disk, contents>>)
  BY <1>2, <1>3, CloseFileStep, OtherFileCalls, Zenon
<1>4. ASSUME NEW p \in Path, PathCalls(p)
      PROVE  FsInv' /\ (returned'.is = "exhausted" => UNCHANGED <<disk, contents>>)
  BY <1>2, <1>4, OpenFileStep, OtherPathCalls
<1> QED BY <1>1, <1>3, <1>4, DirCallStep, Zenon DEF FilesNext

LEMMA RuntimeIsFilesStep ==
  ASSUME [RuntimeNext]_runtimeVars
  PROVE  FilesNext \/ UNCHANGED filesVars
  BY DEF RuntimeNext, runtimeVars, FilesNext

LEMMA FsInvHolds == RuntimeSpec => []FsInv
<1>1. RuntimeInit => FsInv
  BY FilesInitInv DEF RuntimeInit
<1>2. FsInv /\ [RuntimeNext]_runtimeVars => FsInv'
  BY RuntimeIsFilesStep, FilesStep
<1> QED BY <1>1, <1>2, PTL DEF RuntimeSpec

\* However large the tables, every id below a mark is open or recycled and never both:
\* alloc_file and alloc_dir never hand out an id that is open.
THEOREM HandlesStayPartitioned == RuntimeSpec => []HandlesPartition
<1>1. FsInv => HandlesPartition
  BY DEF FsInv
<1> QED BY <1>1, FsInvHolds, PTL

\* An open_file that is refused for want of a handle leaves the disk as it was: the
\* check of the capacity before the file is opened is exact.
THEOREM RefusedOpenChangesNothing == RuntimeSpec => RefusedOpensNothing
<1>1. FsInv /\ [RuntimeNext]_runtimeVars
        => [returned'.is = "exhausted" => UNCHANGED <<disk, contents>>]_filesVars
  BY RuntimeIsFilesStep, FilesStep
<1> QED BY <1>1, FsInvHolds, PTL DEF RuntimeSpec, RefusedOpensNothing

-----------------------------------------------------------------------------
LEMMA ProcInvHolds == RuntimeSpec => []ProcInv
<1>1. RuntimeInit => ProcInv
  BY ProcInitInv DEF RuntimeInit
<1>2. ProcInv /\ [RuntimeNext]_runtimeVars => ProcInv'
  <2>1. [RuntimeNext]_runtimeVars => ProcNext \/ UNCHANGED procVars
    BY Zenon DEF RuntimeNext, runtimeVars
  <2> QED BY <2>1, ProcStep
<1> QED BY <1>1, <1>2, PTL DEF RuntimeSpec

\* Whatever children are started, however they and the deadlines interleave with the
\* calls, every child that has not been waited for is held by one handle or by the call
\* that waits for it, but for the child of a refused spawn (spawn,
\* reject_elapsed_deadline, read_pipe, wait_child_value_until, Drop for ProcState).
THEOREM ChildrenStayAccounted == RuntimeSpec => []ChildrenAccounted
<1>1. ProcInv => ChildrenAccounted
  BY DEF ProcInv
<1> QED BY <1>1, ProcInvHolds, PTL

\* A completed call, with the reads before it, has returned all that the child wrote to
\* its captured streams, for every size of the pipes (wait_child_value_until,
\* wait_result).
THEOREM CompletedOutputIsComplete == RuntimeSpec => []OutputIsComplete
<1>1. ProcInv => OutputIsComplete
  BY CompletedTookAll
<1> QED BY <1>1, ProcInvHolds, PTL

-----------------------------------------------------------------------------
LEMMA NetInvHolds == RuntimeSpec => []NetInv
<1>1. RuntimeInit => NetInv
  BY DEF RuntimeInit, NetInit, NetInv, SocketInv, UdpInv, CallInv, OnlyAskedTimeouts,
     ReadingFrom, WritingTo, ReceivingFrom, Connected, Bound
<1>2. NetInv /\ [RuntimeNext]_runtimeVars => NetInv'
  <2> SUFFICES ASSUME NetInv, [RuntimeNext]_runtimeVars PROVE NetInv'
    BY Zenon
  <2>1. NetNext \/ UNCHANGED netVars
    BY Zenon DEF RuntimeNext, runtimeVars
  <2>2. CASE UNCHANGED netVars
    <3>1. UNCHANGED <<sockets, udp_sockets, net_call, net_result>>
      BY <2>2 DEF netVars, tables
    <3> QED BY <3>1, SocketsAlone, UdpAlone DEF NetInv, CallInv, OnlyAskedTimeouts
  <2>3. CASE NetNext
    BY <2>3, StartsStep, CallsOnStep, OtherCallStep, ReadStep, WriteSendsStep, WriteReturnsStep,
       RecvStep, PeersStep, TimePassesStep, Zenon DEF NetNext, NetContinues
  <2> QED BY <2>1, <2>2, <2>3
<1> QED BY <1>1, <1>2, PTL DEF RuntimeSpec

\* However calls, peers and deadlines interleave, and for every size of the tables, a call
\* that was given no timeout does not time out: a socket has one set only while a call
\* that asked for it waits (read_with_timeout, write_all_with_timeout,
\* net_udp_recv_from).
THEOREM TimeoutsAreAskedFor == RuntimeSpec => []OnlyAskedTimeouts
<1>1. NetInv => OnlyAskedTimeouts
  BY Zenon DEF NetInv
<1> QED BY <1>1, NetInvHolds, PTL

=============================================================================
