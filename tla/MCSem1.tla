-------------------------------- MODULE MCSem1 --------------------------------
(***************************************************************************)
(* The programs of src/sem1 in one run: the heap, the reverser, the        *)
(* tracer, and the two echo servers with their clients.  They share        *)
(* nothing: program says which one runs, and the others stay in their      *)
(* initial states.  The names of the fork server and of the block list are *)
(* their own; the other programs are instances.                            *)
(***************************************************************************)
EXTENDS ForkServer, BlockList

CONSTANTS
  BufSize,
  MaxCalls, MaxSignals,
  SelectMaxSend, MAX, ReadSize, SendSize

(* The sizes of the arrays of thrid_server.c; an empty slot holds no       *)
(* client.                                                                 *)
ASSUME SelectAssumption ==
  /\ MAX \in Nat
  /\ ReadSize \in Nat /\ SendSize \in Nat
  /\ None \notin Clients

(* BUF_SIZE of reverse.c is positive.                                      *)
ASSUME ReverserAssumption == BufSize \in Nat \ {0}

VARIABLES
  program,
  heapPc, current, want,
  dirs, files, root, stack, copy, reversePc, broken, before,
  tracee, stop, inCall, status, tracerPc, label, calls, signals,
  socket, sendBuffer, sendLength, sendOffset,
  selectPc, i, sock, readSet, writeSet, listenReady

heapVars == <<fields, heapPc, current, want, reply>>
reverseVars == <<dirs, files, root, stack, copy, reversePc, broken, before>>
tracerVars == <<tracee, stop, inCall, status, tracerPc, label, calls, signals>>
selectVars == <<socket, sendBuffer, sendLength, sendOffset, selectPc, i, sock,
                readSet, writeSet, listenReady>>
allVars == <<program, heapVars, reverseVars, tracerVars, selectVars, net, procs>>

-----------------------------------------------------------------------------
(* The trees the reverser is run on: files of five, two and three bytes,   *)
(* one of them in a subdirectory, below a root ab, with and without a      *)
(* target ba left by an earlier run, and below a root aa.                  *)
Tree(name, others) ==
  [root |-> <<name>>,
   dirs |-> {<<name>>, <<name, <<"a">>>>} \union others,
   files |-> [p \in {<<name, <<"a", "b">>>>, <<name, <<"b", "b">>>>,
                     <<name, <<"a">>, <<"b", "a">>>>} |->
                CASE Len(p) = 3 -> <<1, 2, 3>>
                  [] p[2] = <<"b", "b">> -> <<1, 2>>
                  [] OTHER -> <<1, 2, 3, 4, 5>>]]

FreshTree == Tree(<<"a", "b">>, {})

Trees == {FreshTree,
          Tree(<<"a", "b">>, {<<<<"b", "a">>>>}),
          Tree(<<"a", "a">>, {})}

Heap == INSTANCE MyHeap WITH pc <- heapPc

Reverser == INSTANCE ReverseTree WITH MayFail <- TRUE, pc <- reversePc

Trace == INSTANCE Tracer WITH child <- tracee, pc <- tracerPc

Select == INSTANCE SelectServer WITH MaxSend <- SelectMaxSend, pc <- selectPc

-----------------------------------------------------------------------------
MCInit ==
  /\ program \in {"heap", "reverse", "trace", "select", "fork"}
  /\ Heap!Init
  /\ Reverser!Init
  /\ program # "reverse" => dirs = FreshTree.dirs
  /\ Trace!Init
  /\ Select!Init
  /\ Init

HeapStep(step) ==
  /\ program = "heap"
  /\ step
  /\ UNCHANGED <<program, reverseVars, tracerVars, selectVars, net, procs>>

ReverseStep(step) ==
  /\ program = "reverse"
  /\ step
  /\ UNCHANGED <<program, heapVars, tracerVars, selectVars, net, procs>>

TraceStep(step) ==
  /\ program = "trace"
  /\ step
  /\ UNCHANGED <<program, heapVars, reverseVars, selectVars, net, procs>>

SelectStep(step) ==
  /\ program = "select"
  /\ step
  /\ UNCHANGED <<program, heapVars, reverseVars, tracerVars, procs>>

ForkStep(step) ==
  /\ program = "fork"
  /\ step
  /\ UNCHANGED <<program, heapVars, reverseVars, tracerVars, selectVars>>

MCNext ==
  \/ HeapStep(Heap!Next)
  \/ ReverseStep(Reverser!Next)
  \/ TraceStep(Trace!Next)
  \/ SelectStep(Select!Next)
  \/ ForkStep(Next)

(* The select server runs and its clients read what reaches them; they     *)
(* need not connect, send, shut down or reset.  A client sends a bounded   *)
(* number of bytes, so all reads together are finitely many: fairness to   *)
(* them together is fairness to each client.                               *)
FairSpec ==
  /\ MCInit /\ [][MCNext]_allVars
  /\ WF_allVars(SelectStep(Select!Server))
  /\ WF_allVars(SelectStep(\E c \in Clients : Select!Drain(c) /\ UNCHANGED selectVars))

-----------------------------------------------------------------------------
(* Tiles and ImplementsAllocator of BlockList and EchoedWhole,             *)
(* NoZombieForgotten and ImplementsEcho of ForkServer are checked as they  *)
(* stand; the last is about the connections, whichever server they belong  *)
(* to.                                                                     *)

(* See ReverseTree. *)
CopyIsMirror == Reverser!CopyIsMirror

(* See Tracer. *)
LinesMatch == Trace!LinesMatch

(* See SelectServer and ForkServer: no server leaks a connection. *)
DescriptorsKept ==
  /\ program = "select" => Select!SocketsOwned
  /\ program = "fork" => SocketsOwned

(* See SelectServer. *)
Echoed == program = "select" => Select!Echoed
=============================================================================
