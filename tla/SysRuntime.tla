----------------------------- MODULE SysRuntime -----------------------------
(***************************************************************************)
(* A runtime session (caap-sys-runtime/src/catalog.rs): one table of state *)
(* for each library, and a dispatcher that gives every call to the library *)
(* it names.  The libraries share no state, so a behaviour uses one of     *)
(* them.  The fs library is in three parts: file handles beside the calls  *)
(* on paths, with at most one file; the calls on paths, with several; and  *)
(* directory handles.                                                      *)
(***************************************************************************)
EXTENDS SysProc, SysFiles, SysNet

VARIABLE library

runtimeVars == <<library, procVars, filesVars, netVars>>

Part == {"process", "files", "paths", "dirs", "net"}

RuntimeInit ==
  /\ library \in Part
  /\ ProcInit /\ FilesInit /\ NetInit
  /\ library # "files" => contents = <<>>

\* dispatch: the library's own table, and no other, is passed on.  A call with the wrong
\* number of arguments, or one the policy denies, changes nothing: it is a stutter.
RuntimeNext ==
  /\ \/ library = "process" /\ ProcNext /\ UNCHANGED <<filesVars, netVars>>
     \/ library = "net" /\ NetNext /\ UNCHANGED <<procVars, filesVars>>
     \/ /\ \/ library = "files" /\ (\E h \in FileId : FileCalls(h)) /\ Len(contents') <= 1
           \/ library = "files" /\ (\E p \in Path : PathCalls(p)) /\ Len(contents') <= 1
           \/ library = "paths" /\ \E p \in Path : PathCalls(p)
           \/ library = "dirs" /\ DirCalls
        /\ UNCHANGED <<procVars, netVars>>
  /\ UNCHANGED library

\* A session may end or be left alone, but a call that was begun and can go on does,
\* and time passes.  Nothing is assumed of children, peers or callers.
RuntimeSpec ==
  /\ RuntimeInit /\ [][RuntimeNext]_runtimeVars
  /\ HostFairness /\ TimeFairness /\ NetFairness

-----------------------------------------------------------------------------
\* Calls of the host return.  process.run, wait, read_stdout and read_stderr of a child
\* with a timeout, and the network calls that were given one, whatever the child or the
\* peer does, with a pipe full, a buffer full or nobody at the other end
\* (wait_child_value_until, read_live_pipe_until, accept_with_timeout, read_with_timeout,
\* write_all_with_timeout, net_udp_recv_from, net_poll_unix); and a run or wait without
\* a timeout, when the child gets to run (UntimedWaitReturns).
CallsReturn ==
  /\ (TimedProcCall \/ TimedNetCall) ~> (call = NoChild /\ net_call = NoSocket)
  /\ UntimedWaitReturns

=============================================================================
