------------------------------ MODULE SysFiles ------------------------------
(***************************************************************************)
(* The file and directory handles of a runtime session                     *)
(* (caap-sys-runtime/src/fs.rs) over a small disk: paths name files, files *)
(* are byte sequences, and a handle keeps its file when the path is        *)
(* renamed, replaced or removed.                                           *)
(***************************************************************************)
EXTENDS Integers, Sequences, FiniteSets

CONSTANTS Path,        \* paths of regular files
          MaxFsHandles,    \* MAX_FS_HANDLES
          MaxFiles,    \* files that may ever be created
          MaxLen,      \* bytes a file may hold
          Chunk,       \* bytes file_read_line reads at a time
          Texts,       \* what a caller may write
          OpenFlags,   \* flags a caller may open a file with
          Seeks        \* [offset, whence] a caller may seek to

Byte == {"a", "newline", "invalid", "zero"}
Flag == {"read", "write", "append", "create", "create_new", "truncate"}

ASSUME FilesAssumption ==
  /\ MaxFsHandles \in Nat \ {0} /\ MaxFiles \in Nat /\ MaxLen \in Nat /\ Chunk \in Nat \ {0}
  /\ Texts \subseteq Seq(Byte) \ {<<>>} /\ OpenFlags \subseteq SUBSET Flag

DirHandleBase == MaxFsHandles + 1

VARIABLES disk,          \* the file each path names
          contents,      \* the bytes of every file ever created
          file_handles, dir_handles,   \* the ids in the tables
          opened,        \* the file, position and flags of each file handle
          free_file, free_dir,    \* the heaps of recycled ids
          next_file, next_dir,    \* the high-water marks
          returned       \* what the last call returned

fileVars == <<file_handles, opened, free_file, next_file>>
dirVars == <<dir_handles, free_dir, next_dir>>
filesVars == <<disk, contents, fileVars, dirVars, returned>>

FileId == 1..MaxFsHandles
DirId == DirHandleBase..(DirHandleBase + MaxFsHandles - 1)

Closed == [file |-> 0, at |-> 0, flags |-> {}]

FilesInit ==
  /\ \/ contents = <<>> /\ disk = [p \in Path |-> 0]
     \/ /\ \E text \in Texts : contents = <<text>>
        /\ disk \in [Path -> {0, 1}] /\ \E p \in Path : disk[p] = 1
  /\ file_handles = {} /\ dir_handles = {} /\ opened = [h \in FileId |-> Closed]
  /\ free_file = {} /\ free_dir = {}
  /\ next_file = 1 /\ next_dir = DirHandleBase
  /\ returned = [is |-> "none", text |-> <<>>]

-----------------------------------------------------------------------------
FsReturns(is, text) == returned' = [is |-> is, text |-> text]

\* A call that changes nothing.
FsRefuses(is) ==
  FsReturns(is, <<>>) /\ UNCHANGED <<disk, contents, fileVars, dirVars>>

Lowest(S) == CHOOSE i \in S : \A j \in S : i <= j

Valid(text) == \A i \in DOMAIN text : text[i] # "invalid"

\* A text, unless it is not valid UTF-8; the position has moved either way.
FsReturnsText(text) ==
  IF Valid(text) THEN FsReturns("text", text) ELSE FsReturns("error", <<>>)

\* normalize_fs_open_file_flags
Normalized(flags) == IF flags \cap {"read", "write", "append"} = {}
                     THEN flags \cup {"read"} ELSE flags

Acceptable(flags) ==
  /\ ~({"append", "truncate"} \subseteq flags)
  /\ ~({"create", "create_new"} \subseteq flags)
  /\ "truncate" \in flags => "write" \in flags
  /\ flags \cap {"create", "create_new"} # {} => flags \cap {"write", "append"} # {}

\* A new file of this text at path p.
Creates(p, text) ==
  /\ Len(contents) < MaxFiles
  /\ contents' = Append(contents, text)
  /\ disk' = [disk EXCEPT ![p] = Len(contents) + 1]

\* OpenOptions::open, when it succeeds.
Opens(p, flags) ==
  \/ /\ disk[p] = 0 /\ flags \cap {"create", "create_new"} # {}
     /\ Creates(p, <<>>)
  \/ /\ disk[p] # 0 /\ "create_new" \notin flags
     /\ contents' = IF "truncate" \in flags THEN [contents EXCEPT ![disk[p]] = <<>>] ELSE contents
     /\ UNCHANGED disk

CannotOpen(p, flags) ==
  \/ disk[p] = 0 /\ flags \cap {"create", "create_new"} = {}
  \/ disk[p] # 0 /\ "create_new" \in flags

CanAllocFile == free_file # {} \/ next_file <= MaxFsHandles

\* A file handle of this id.
Inserts(h, handle) ==
  file_handles' = file_handles \cup {h} /\ opened' = [opened EXCEPT ![h] = handle]

\* The recycled id is looked at and left in the heap.
AllocPeeking(handle) ==
  IF free_file # {}
  THEN Inserts(Lowest(free_file), handle) /\ UNCHANGED <<free_file, next_file>>
  ELSE Inserts(next_file, handle) /\ next_file' = next_file + 1 /\ UNCHANGED free_file

\* alloc_file: the lowest recycled id, else the next fresh one.
alloc_file(handle) ==
  IF free_file # {}
  THEN /\ Inserts(Lowest(free_file), handle)
       /\ free_file' = free_file \ {Lowest(free_file)} /\ UNCHANGED next_file
  ELSE Inserts(next_file, handle) /\ next_file' = next_file + 1 /\ UNCHANGED free_file

\* The capacity is left to alloc_file, after the file is opened.
OpenThenAlloc(p, asked) ==
  \/ ~Acceptable(Normalized(asked)) /\ FsRefuses("error")
  \/ /\ Acceptable(Normalized(asked))
     /\ \/ CannotOpen(p, Normalized(asked)) /\ FsRefuses("error")
        \/ /\ Opens(p, Normalized(asked))
           /\ IF CanAllocFile
              THEN /\ alloc_file([file |-> disk'[p], at |-> 0, flags |-> Normalized(asked)])
                   /\ FsReturns("handle", <<>>)
              ELSE UNCHANGED fileVars /\ FsReturns("exhausted", <<>>)
           /\ UNCHANGED dirVars

\* fs_open_file: the capacity is looked at before the file is opened.
fs_open_file(p, asked) ==
  \/ ~Acceptable(Normalized(asked)) /\ FsRefuses("error")
  \/ /\ Acceptable(Normalized(asked))
     /\ \/ Cardinality(file_handles) >= MaxFsHandles /\ FsRefuses("exhausted")
        \/ /\ Cardinality(file_handles) < MaxFsHandles
           /\ \/ CannotOpen(p, Normalized(asked)) /\ FsRefuses("error")
              \/ /\ Opens(p, Normalized(asked))
                 /\ IF CanAllocFile
                    THEN /\ alloc_file([file |-> disk'[p], at |-> 0, flags |-> Normalized(asked)])
                         /\ FsReturns("handle", <<>>)
                    ELSE UNCHANGED fileVars /\ FsReturns("exhausted", <<>>)
                 /\ UNCHANGED dirVars

fs_close_file(h) ==
  /\ h \in file_handles
  /\ file_handles' = file_handles \ {h} /\ opened' = [opened EXCEPT ![h] = Closed]
  /\ free_file' = free_file \cup {h}
  /\ FsReturns("done", <<>>)
  /\ UNCHANGED <<disk, contents, next_file, dirVars>>

FsUnknown(h) == h \notin file_handles /\ FsRefuses("error")

Bytes(h) == contents[opened[h].file]
Has(h, flag) == flag \in opened[h].flags

MovesTo(h, at) ==
  /\ opened' = [opened EXCEPT ![h].at = at]
  /\ UNCHANGED <<disk, contents, file_handles, free_file, next_file, dirVars>>

\* What is left of a file from a position, which may be past its end.
Rest(bytes, at) == SubSeq(bytes, at + 1, Len(bytes))

fs_file_read_all_text(h) ==
  /\ h \in file_handles
  /\ \/ ~Has(h, "read") /\ FsRefuses("error")
     \/ /\ Has(h, "read")
        /\ MovesTo(h, opened[h].at + Len(Rest(Bytes(h), opened[h].at)))
        /\ IF Valid(Rest(Bytes(h), opened[h].at)) THEN FsReturns("done", <<>>)
           ELSE FsReturns("error", <<>>)

\* Nothing is read, and nothing can fail, when no byte is asked for.
fs_file_read_bytes(h, max_bytes) ==
  /\ h \in file_handles
  /\ \/ ~Has(h, "read") /\ max_bytes > 0 /\ FsRefuses("error")
     \/ /\ Has(h, "read") \/ max_bytes = 0
        /\ LET rest == Rest(Bytes(h), opened[h].at)
               n == IF Len(rest) < max_bytes THEN Len(rest) ELSE max_bytes
           IN /\ MovesTo(h, opened[h].at + n)
              /\ FsReturns("done", <<>>)

Newlines(text) == {i \in DOMAIN text : text[i] = "newline"}

\* The loop of fs_file_read_line: how many bytes the line has from each position.
\* A chunk with a newline ends the line, and the file is wound back over the rest.
LineLength(bytes) ==
  LET line[at \in 0..Len(bytes)] ==
        LET buf == SubSeq(bytes, at + 1, IF at + Chunk < Len(bytes) THEN at + Chunk ELSE Len(bytes))
        IN IF buf = <<>> THEN 0
           ELSE IF Newlines(buf) # {} THEN Lowest(Newlines(buf))
           ELSE Len(buf) + line[at + Len(buf)]
  IN line

\* The file is left behind the last chunk that was read.
ReadLineWithoutSeek(h) ==
  /\ h \in file_handles
  /\ \/ ~Has(h, "read") /\ FsRefuses("error")
     \/ /\ Has(h, "read")
        /\ LET at == opened[h].at
               n == IF at > Len(Bytes(h)) THEN 0 ELSE LineLength(Bytes(h))[at]
               chunks == at + Chunk * ((n + Chunk - 1) \div Chunk)
           IN /\ MovesTo(h, IF chunks < Len(Bytes(h)) THEN chunks ELSE Len(Bytes(h)))
              /\ IF n = 0 THEN FsReturns("null", <<>>)
                 ELSE FsReturnsText(SubSeq(Bytes(h), at + 1, at + n))

fs_file_read_line(h) ==
  /\ h \in file_handles
  /\ \/ ~Has(h, "read") /\ FsRefuses("error")
     \/ /\ Has(h, "read")
        /\ LET at == opened[h].at
               n == IF at > Len(Bytes(h)) THEN 0 ELSE LineLength(Bytes(h))[at]
           IN /\ MovesTo(h, at + n)
              /\ IF n = 0 THEN FsReturns("null", <<>>)
                 ELSE FsReturnsText(SubSeq(Bytes(h), at + 1, at + n))

\* bytes with text written over them at a position; a gap is filled with zeros.
Written(bytes, at, text) ==
  [i \in 1..(IF Len(bytes) < at + Len(text) THEN at + Len(text) ELSE Len(bytes)) |->
     IF i > at /\ i <= at + Len(text) THEN text[i - at]
     ELSE IF i <= Len(bytes) THEN bytes[i] ELSE "zero"]

\* fs_file_write and fs_file_write_bytes; O_APPEND writes at the end of the file.
fs_file_write(h, text) ==
  /\ h \in file_handles
  /\ \/ ~Has(h, "write") /\ ~Has(h, "append") /\ FsRefuses("error")
     \/ /\ Has(h, "write") \/ Has(h, "append")
        /\ LET at == IF Has(h, "append") THEN Len(Bytes(h)) ELSE opened[h].at
           IN /\ at + Len(text) <= MaxLen
              /\ contents' = [contents EXCEPT ![opened[h].file] = Written(@, at, text)]
              /\ opened' = [opened EXCEPT ![h].at = at + Len(text)]
        /\ FsReturns("done", <<>>)
        /\ UNCHANGED <<disk, file_handles, free_file, next_file, dirVars>>

\* A File has no buffer of its own to flush.
fs_file_flush(h) == h \in file_handles /\ FsRefuses("done")

Target(h, offset, whence) ==
  CASE whence = "start" -> offset
    [] whence = "current" -> opened[h].at + offset
    [] whence = "end" -> Len(Bytes(h)) + offset

fs_file_seek(h, offset, whence) ==
  /\ h \in file_handles
  /\ \/ Target(h, offset, whence) < 0 /\ FsRefuses("error")
     \/ /\ Target(h, offset, whence) \in 0..MaxLen
        /\ MovesTo(h, Target(h, offset, whence))
        /\ FsReturns("done", <<>>)

\* Open for writing, creating and truncating, and write.
Stores(p, text) ==
  \/ disk[p] = 0 /\ Creates(p, text)
  \/ disk[p] # 0 /\ contents' = [contents EXCEPT ![disk[p]] = text] /\ UNCHANGED disk

\* fs_write_text and fs_write_bytes
fs_write_text(p, text) ==
  /\ Stores(p, text)
  /\ FsReturns("done", <<>>) /\ UNCHANGED <<fileVars, dirVars>>

\* fs_append_text and fs_append_bytes
fs_append_text(p, text) ==
  /\ \/ disk[p] = 0 /\ Creates(p, text)
     \/ /\ disk[p] # 0 /\ Len(contents[disk[p]]) + Len(text) <= MaxLen
        /\ contents' = [contents EXCEPT ![disk[p]] = @ \o text] /\ UNCHANGED disk
  /\ FsReturns("done", <<>>) /\ UNCHANGED <<fileVars, dirVars>>

fs_remove_file(p) ==
  \/ disk[p] = 0 /\ FsRefuses("error")
  \/ /\ disk[p] # 0 /\ disk' = [disk EXCEPT ![p] = 0]
     /\ FsReturns("done", <<>>) /\ UNCHANGED <<contents, fileVars, dirVars>>

\* rename does nothing when both paths name one file.
fs_rename(src, dst) ==
  \/ disk[src] = 0 /\ FsRefuses("error")
  \/ /\ disk[src] # 0
     /\ disk' = IF disk[src] = disk[dst] THEN disk
                ELSE [disk EXCEPT ![dst] = disk[src], ![src] = 0]
     /\ FsReturns("done", <<>>) /\ UNCHANGED <<contents, fileVars, dirVars>>

\* std::fs::copy empties the destination before it copies: a file copied onto itself,
\* or onto another name of it, is lost.
fs_copy_file(src, dst) ==
  \/ disk[src] = 0 /\ FsRefuses("error")
  \/ /\ disk[src] # 0
     /\ Stores(dst, IF disk[dst] = disk[src] THEN <<>> ELSE contents[disk[src]])
     /\ FsReturns("done", <<>>) /\ UNCHANGED <<fileVars, dirVars>>

fs_hard_link(src, dst) ==
  \/ (disk[src] = 0 \/ disk[dst] # 0) /\ FsRefuses("error")
  \/ /\ disk[src] # 0 /\ disk[dst] = 0 /\ disk' = [disk EXCEPT ![dst] = disk[src]]
     /\ FsReturns("done", <<>>) /\ UNCHANGED <<contents, fileVars, dirVars>>

\* fs_open_dir: no directory is looked at until dir_list.
fs_open_dir ==
  /\ \/ /\ free_dir # {}
        /\ dir_handles' = dir_handles \cup {Lowest(free_dir)}
        /\ free_dir' = free_dir \ {Lowest(free_dir)} /\ UNCHANGED next_dir
        /\ FsReturns("handle", <<>>)
     \/ /\ free_dir = {} /\ next_dir < DirHandleBase + MaxFsHandles
        /\ dir_handles' = dir_handles \cup {next_dir}
        /\ next_dir' = next_dir + 1 /\ UNCHANGED free_dir
        /\ FsReturns("handle", <<>>)
     \/ /\ free_dir = {} /\ next_dir >= DirHandleBase + MaxFsHandles
        /\ FsReturns("exhausted", <<>>) /\ UNCHANGED dirVars
  /\ UNCHANGED <<disk, contents, fileVars>>

fs_close_dir(h) ==
  \/ h \notin dir_handles /\ FsRefuses("error")
  \/ /\ h \in dir_handles
     /\ dir_handles' = dir_handles \ {h} /\ free_dir' = free_dir \cup {h}
     /\ FsReturns("done", <<>>) /\ UNCHANGED <<disk, contents, fileVars, next_dir>>

-----------------------------------------------------------------------------
FileCalls(h) ==
  \/ FsUnknown(h) \/ fs_close_file(h) \/ fs_file_read_all_text(h) \/ fs_file_read_line(h)
  \/ fs_file_flush(h)
  \/ \E n \in 0..1 : fs_file_read_bytes(h, n)
  \/ \E text \in Texts : fs_file_write(h, text)
  \/ \E s \in Seeks : fs_file_seek(h, s.offset, s.whence)

PathCalls(p) ==
  \/ \E flags \in OpenFlags : fs_open_file(p, flags)
  \/ \E text \in Texts : fs_write_text(p, text) \/ fs_append_text(p, text)
  \/ fs_remove_file(p)
  \/ \E dst \in Path : fs_rename(p, dst) \/ fs_copy_file(p, dst) \/ fs_hard_link(p, dst)

DirCalls == fs_open_dir \/ \E h \in DirId : fs_close_dir(h)

FilesNext == (\E h \in FileId : FileCalls(h)) \/ (\E p \in Path : PathCalls(p)) \/ DirCalls

FilesSpec == FilesInit /\ [][FilesNext]_filesVars

-----------------------------------------------------------------------------
(* Properties *)

\* Every id below a mark is open or recycled and never both, so an open handle is
\* never handed out a second time, and the check of the capacity in open_file agrees
\* with what alloc_file can give (alloc_file, alloc_dir, recycle_file, recycle_dir).
HandlesPartition ==
  /\ file_handles \cup free_file = 1..(next_file - 1) /\ file_handles \cap free_file = {}
  /\ dir_handles \cup free_dir = DirHandleBase..(next_dir - 1) /\ dir_handles \cap free_dir = {}

\* An open that is refused for want of a handle has created no file and emptied none
\* ("Guard capacity BEFORE opening").
RefusedOpensNothing ==
  [][returned'.is = "exhausted" => UNCHANGED <<disk, contents>>]_filesVars

IsLine(bytes, at, line) ==
  /\ SubSeq(bytes, at + 1, at + Len(line)) = line
  /\ \A i \in 1..(Len(line) - 1) : line[i] # "newline"
  /\ line = <<>> \/ line[Len(line)] = "newline" \/ at + Len(line) = Len(bytes)
  /\ line = <<>> => at >= Len(bytes)

\* A line is what there is from the position up to the first newline, and the position
\* moves past exactly that, wherever the newline falls in a chunk and whatever other
\* handles have written since (file_read_line).
ReadsLines ==
  [][\A h \in FileId : returned'.is \in {"text", "null"} /\ fs_file_read_line(h) =>
       /\ IsLine(Bytes(h), opened[h].at, returned'.text)
       /\ opened'[h].at = opened[h].at + Len(returned'.text)]_filesVars
=============================================================================
