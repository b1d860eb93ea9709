------------------------- MODULE RepoServers_proofs -------------------------
(***************************************************************************)
(* Proofs about the repo-server supervisor, for every number of ports.     *)
(*                                                                         *)
(* NoOrphanServers is not inductive: it speaks only of the final state.    *)
(* What makes it true is that the ExitStack always holds exactly the       *)
(* servers started so far, in start order, except for the one whose        *)
(* readiness loop is running, whose own `finally` kills it.  IInv states   *)
(* that, and ReverseTeardown follows from the same invariant.              *)
(***************************************************************************)
EXTENDS RepoServers, SequenceTheorems, TLAPS

(* The ExitStack holds the indices 1, 2, ..., in order. *)
StackPrefix == \A k \in 1 .. Len(stack) : stack[k] = k

(* While the loop runs, the stack holds every pair before cur; it only    *)
(* shrinks afterwards.                                                     *)
StackMatchesLoop ==
  /\ Len(stack) <= cur - 1
  /\ pc \in {"create", "bind", "spawn", "wait", "serving"}
       => Len(stack) = cur - 1

(* Inside the loop body cur names a real pair. *)
CurInRange == pc \in {"bind", "spawn", "wait"} => cur \in Idx

(* Every server whose process exists is on the stack, or is the one in    *)
(* its readiness loop.                                                     *)
LiveOnStack ==
  \A i \in Idx : Alive(i) => (i <= Len(stack) \/ (pc = "wait" /\ i = cur))

DoneEmpty == pc = "done" => stack = << >>

(* The handoff happens before the loop starts. *)
CreateFirst == pc = "create" => cur = 1

IInv ==
  /\ TypeOK
  /\ StackPrefix
  /\ StackMatchesLoop
  /\ CurInRange
  /\ LiveOnStack
  /\ DoneEmpty
  /\ CreateFirst

(* TypeOK without its Boolean conjunct: the SMT backend proves the rest,  *)
(* Zenon the Boolean-valued `raised`.                                      *)
Shape ==
  /\ pc \in PCs
  /\ cur \in 1 .. NumPorts + 1
  /\ stack \in Seq(Idx)
  /\ server \in [Idx -> ServerStates]
  /\ listening \in [Idx -> BOOLEAN]
  /\ sock \in [Idx -> SockStates]

Core == Shape /\ StackPrefix /\ StackMatchesLoop /\ CurInRange
          /\ LiveOnStack /\ DoneEmpty /\ CreateFirst

USE NumPortsAssumption

(* Popping the top of a non-empty stack, as ExitStack does when it unwinds *)
(* one context, leaves one entry fewer.                                    *)
LEMMA PopLen ==
  ASSUME NEW S, NEW s \in Seq(S), Len(s) # 0
  PROVE  Len(SubSeq(s, 1, Len(s) - 1)) = Len(s) - 1
<1>1. PICK n \in Nat : n = Len(s) - 1
  OBVIOUS
<1>2. \A i \in 1 .. n : s[i] \in S
  BY <1>1
<1>3. Len(SubSeq(s, 1, n)) = IF 1 <= n THEN n - 1 + 1 ELSE 0
  BY <1>2, SubSeqProperties
<1>4. QED
  BY <1>1, <1>3

LEMMA IInvSplit == IInv <=> Core /\ raised \in BOOLEAN
BY Zenon DEF IInv, Core, Shape, TypeOK

LEMMA InitIInv == Init => IInv
<1> SUFFICES ASSUME Init PROVE IInv
  OBVIOUS
<1>1. Core
  BY SMT DEF Init, Core, Shape, StackPrefix, StackMatchesLoop, CurInRange,
         LiveOnStack, DoneEmpty, CreateFirst, Alive, PCs, ServerStates, SockStates
<1>2. raised \in BOOLEAN
  BY Zenon DEF Init
<1>3. QED
  BY <1>1, <1>2, IInvSplit

LEMMA NextRaised == IInv /\ [Next]_vars => raised' \in BOOLEAN
BY Zenon DEF IInv, TypeOK, Next, Orchestrator, vars, CreateSockets, Bind,
             Spawn, Ready, Interrupt, Leave, Unwind, Finish, Listen, Exit,
             Terminated

LEMMA NextCore == IInv /\ [Next]_vars => Core'
<1> SUFFICES ASSUME Core, [Next]_vars PROVE Core'
  BY IInvSplit
<1> USE DEF Core, Shape, CreateFirst
<1>1. CASE CreateSockets
  BY <1>1 DEF CreateSockets, StackPrefix, StackMatchesLoop,
              CurInRange, LiveOnStack, DoneEmpty, Alive, Idx, PCs, SockStates
<1>2. CASE Bind
  BY <1>2 DEF Bind, StackPrefix, StackMatchesLoop,
              CurInRange, LiveOnStack, DoneEmpty, Alive, Idx, PCs, SockStates
<1>3. CASE Spawn
  BY <1>3 DEF Spawn, StackPrefix, StackMatchesLoop,
              CurInRange, LiveOnStack, DoneEmpty, Alive, Idx, PCs,
              ServerStates, SockStates
<1>4. CASE Ready
  <2>1. Shape'
    BY <1>4 DEF Ready, CurInRange, Idx, PCs
  <2>2. StackPrefix'
    BY <1>4 DEF Ready, StackPrefix, StackMatchesLoop, CurInRange, Idx
  <2>3. (StackMatchesLoop /\ CurInRange /\ DoneEmpty /\ CreateFirst)'
    BY <1>4 DEF Ready, StackMatchesLoop, CurInRange, DoneEmpty, Idx
  <2>4. LiveOnStack'
    BY <1>4 DEF Ready, StackMatchesLoop, CurInRange, LiveOnStack, Alive, Idx
  <2>5. QED
    BY <2>1, <2>2, <2>3, <2>4
<1>5. CASE Interrupt
  BY <1>5 DEF Interrupt, StackPrefix, StackMatchesLoop,
              CurInRange, LiveOnStack, DoneEmpty, Alive, Idx, PCs,
              ServerStates, SockStates
<1>6. CASE Leave
  BY <1>6 DEF Leave, StackPrefix, StackMatchesLoop,
              CurInRange, LiveOnStack, DoneEmpty, Alive, PCs
<1>7. CASE Unwind
  <2> DEFINE t == stack[Len(stack)]
  <2>1. Len(stack) \in Idx /\ t = Len(stack)
    <3>1. Len(stack) # 0
      BY <1>7 DEF Unwind
    <3>2. Len(stack) \in 1 .. NumPorts
      BY <3>1 DEF StackMatchesLoop
    <3>3. QED
      BY <3>2 DEF StackPrefix, Idx
  <2>2. Shape'
    BY <1>7, <2>1 DEF Unwind, ServerStates, SockStates
  <2>3. StackPrefix'
    BY <1>7, <2>1 DEF Unwind, StackPrefix
  <2>4. (StackMatchesLoop /\ CurInRange /\ DoneEmpty /\ CreateFirst)'
    BY <1>7, <2>1 DEF Unwind, StackMatchesLoop, CurInRange, DoneEmpty
  <2>5. LiveOnStack'
    <3>0. stack \in Seq(Idx) /\ server \in [Idx -> ServerStates]
      BY DEF Core, Shape
    <3>1. Len(stack') = Len(stack) - 1 /\ pc' = pc
      <4>1. stack' = SubSeq(stack, 1, Len(stack) - 1) /\ pc' = pc
        BY <1>7 DEF Unwind
      <4>2. Len(stack) \in 1 .. NumPorts
        BY <2>1 DEF Idx
      <4>3. Len(SubSeq(stack, 1, Len(stack) - 1)) = Len(stack) - 1
        BY <4>2, <3>0, PopLen
      <4>4. QED
        BY <4>1, <4>3
    <3>2. server'[t] = "reaped"
      BY <1>7, <2>1, <3>0 DEF Unwind
    <3>3. \A i \in Idx \ {t} : server'[i] = server[i]
      BY <1>7, <3>0 DEF Unwind
    <3>4. pc = "unwind"
      BY <1>7 DEF Unwind
    <3>5. QED
      BY <2>1, <3>1, <3>2, <3>3, <3>4 DEF LiveOnStack, Alive, Idx
  <2>6. QED
    BY <2>2, <2>3, <2>4, <2>5
<1>8. CASE Finish
  BY <1>8 DEF Finish, StackPrefix, StackMatchesLoop,
              CurInRange, LiveOnStack, DoneEmpty, Alive, PCs
<1>9. CASE \E i \in Idx : Listen(i) \/ Exit(i)
  BY <1>9 DEF Listen, Exit, StackPrefix, StackMatchesLoop,
              CurInRange, LiveOnStack, DoneEmpty, Alive, Idx, ServerStates
<1>10. CASE Terminated
  BY <1>10 DEF Terminated, vars, StackPrefix,
               StackMatchesLoop, CurInRange, LiveOnStack, DoneEmpty, Alive
<1>11. CASE UNCHANGED vars
  BY <1>11 DEF vars, StackPrefix, StackMatchesLoop,
               CurInRange, LiveOnStack, DoneEmpty, Alive
<1>12. QED
  BY <1>1, <1>2, <1>3, <1>4, <1>5, <1>6, <1>7, <1>8, <1>9, <1>10, <1>11
  DEF Next, Orchestrator

LEMMA NextIInv == IInv /\ [Next]_vars => IInv'
<1> SUFFICES ASSUME IInv, [Next]_vars PROVE IInv'
  OBVIOUS
<1>1. Core' /\ raised' \in BOOLEAN
  BY NextCore, NextRaised
<1>2. QED
  BY <1>1, Zenon DEF IInv, TypeOK, Core, Shape

(* The supervisor's state is always well-typed, whatever NumPorts is. *)
THEOREM TypeCorrect == Spec => []TypeOK
<1>1. IInv => TypeOK
  BY DEF IInv
<1>2. QED
  BY InitIInv, NextIInv, <1>1, PTL DEF Spec

(* Whatever fails and wherever, launch_repo_servers_for_netns never        *)
(* returns or raises leaving a repo-server process behind.                 *)
THEOREM NoOrphans == Spec => []NoOrphanServers
<1>1. IInv => NoOrphanServers
  BY DEF IInv, TypeOK, LiveOnStack, DoneEmpty, NoOrphanServers, Alive,
         ServerStates, CurInRange
<1>2. QED
  BY InitIInv, NextIInv, <1>1, PTL DEF Spec

(* Every step that reaps a server happens when all servers started after   *)
(* it are gone: the ExitStack and the `finally` tear down in reverse.      *)
THEOREM ReverseOrder == Spec => ReverseTeardown
<1>1. ASSUME IInv, [Next]_vars, NEW i \in Idx,
             server[i] # "reaped", server'[i] = "reaped"
      PROVE  \A j \in Idx : j > i => ~Alive(j)
  <2>1. CASE Unwind
    BY <1>1, <2>1 DEF Unwind, IInv, TypeOK, StackPrefix, LiveOnStack,
                      Alive, Idx
  <2>2. CASE Interrupt
    BY <1>1, <2>2 DEF Interrupt, IInv, TypeOK, StackMatchesLoop,
                      CurInRange, LiveOnStack, Alive, Idx
  <2>3. CASE ~Unwind /\ ~Interrupt
    BY <1>1, <2>3 DEF Next, Orchestrator, vars, CreateSockets, Bind,
                      Spawn, Ready, Leave, Finish, Listen, Exit, Terminated,
                      IInv, TypeOK, Idx
  <2>4. QED
    BY <2>1, <2>2, <2>3
<1>2. IInv /\ [Next]_vars
        => [\A i \in Idx :
              (server[i] # "reaped" /\ server'[i] = "reaped")
                => \A j \in Idx : j > i => ~Alive(j)]_vars
  BY <1>1
<1>3. QED
  BY InitIInv, NextIInv, <1>2, PTL DEF Spec, ReverseTeardown

=============================================================================
