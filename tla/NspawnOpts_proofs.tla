------------------------- MODULE NspawnOpts_proofs -------------------------
(***************************************************************************)
(* Proofs about how _NspawnOpts come to be, for every set of snapshots,   *)
(* version locks and users and every length of command line.              *)
(*                                                                         *)
(* OptsValid speaks of the end of the call; each check it rests on runs  *)
(* at its own stage, and what that check established must hold on to    *)
(* the end.  It does because argparse is the only step that writes the   *)
(* namespace, and every later stage only reads it; each stage writes      *)
(* one struct and moves on.  IInv states, stage by stage, what the checks  *)
(* behind it have established.                                             *)
(***************************************************************************)
EXTENDS NspawnOpts, TLAPS

(* The stages after argparse has consumed the command line. *)
Parsed == {"versionlock", "debug_opts", "new_opts", "cli_args", "done"}

(* A keyword call of new_nspawn_opts starts at the constructor. *)
ApiStages == mode = "api" => pc \in {"new_opts", "done", "error"}

(* Without allow_debug_only_opts, the debug-only struct of a command line  *)
(* is the production one from the moment it is built.                     *)
ProdDefaults ==
  mode = "cli" /\ ~allow /\ pc \in {"new_opts", "cli_args", "done"}
    => dbg = ProdDebugOpts

(* Once new_nspawn_opts has returned, its result is built from the       *)
(* namespace and the debug-only struct, and both of its asserts held.      *)
OptsBuilt ==
  pc \in {"cli_args", "done"} =>
    /\ opts = OptsRecord(ns, dbg)
    /\ ~(ns.quiet /\ dbg.debug)
    /\ dbg.snapshot_into # None => ns.snapshot

(* The --append-boot-console assert held once parsing is over. *)
BootChecked ==
  mode = "cli" /\ pc \in Parsed =>
    (ns.append_boot_console # None => ns.boot)

(* The version locks name served snapshots once they are normalized. *)
LocksServed ==
  mode = "cli" /\ pc \in Parsed \ {"versionlock"} =>
    DOMAIN vlock \subseteq ToSet(ns.serve_rpm_snapshots)

(* A command line that serves repo snapshots ran as root. *)
ServeAsRoot ==
  mode = "cli" /\ pc = "done" =>
    (ns.serve_rpm_snapshots # << >> => ns.user = "root")

IInv ==
  /\ mode \in {"cli", "api"}
  /\ ApiStages
  /\ ProdDefaults
  /\ OptsBuilt
  /\ BootChecked
  /\ LocksServed
  /\ ServeAsRoot

LEMMA InitIInv == Init => IInv
<1> SUFFICES ASSUME Init PROVE IInv
  OBVIOUS
<1>1. \/ mode = "cli" /\ pc = "parse"
      \/ mode = "api" /\ pc = "new_opts" /\ allow = FALSE
  BY DEF Init
<1>2. QED
  BY <1>1 DEF IInv, ApiStages, ProdDefaults, OptsBuilt, BootChecked,
              LocksServed, ServeAsRoot, Parsed

LEMMA NextIInv == IInv /\ [Next]_vars => IInv'
<1> SUFFICES ASSUME IInv, [Next]_vars PROVE IInv'
  OBVIOUS
<1> USE DEF IInv, ApiStages, ProdDefaults, OptsBuilt, BootChecked,
           LocksServed, ServeAsRoot, Parsed
<1>1. CASE ParseArg
  BY <1>1 DEF ParseArg
<1>2. CASE CheckBoot
  BY <1>2 DEF CheckBoot
<1>3. CASE NormalizeVersionlock
  BY <1>3 DEF NormalizeVersionlock
<1>4. CASE ExtractDebugOpts
  BY <1>4 DEF ExtractDebugOpts
<1>5. CASE NewNspawnOpts
  BY <1>5 DEF NewNspawnOpts
<1>6. CASE NewCliArgs
  BY <1>6 DEF NewCliArgs, OptsRecord
<1>7. CASE Finished \/ UNCHANGED vars
  BY <1>7 DEF Finished, vars
<1>8. QED
  BY <1>1, <1>2, <1>3, <1>4, <1>5, <1>6, <1>7 DEF Next

(* Spec 3 and 4.1, for every command line and every keyword call: the     *)
(* options new_nspawn_opts and _parse_cli_args return are valid.           *)
THEOREM OptsAlwaysValid == Spec => []OptsValid
<1>1. IInv => OptsValid
  BY DEF IInv, OptsBuilt, BootChecked, LocksServed, ServeAsRoot, Parsed,
         OptsValid, OptsRecord
<1>2. QED
  BY InitIInv, NextIInv, <1>1, PTL DEF Spec

-----------------------------------------------------------------------------
(* Type correctness.                                                       *)

USE OptsAssumption

(* The argparse namespace: the value each option's add_argument can store *)
(* into its dest, and the default of each.                                 *)
NsType ==
  [boot : BOOLEAN, append_boot_console : {None, "console.log"},
   serve_rpm_snapshots : Seq(Snapshots),
   snapshot_to_versionlock : Seq(Snapshots \X VersionLocks),
   quiet : BOOLEAN, snapshot : BOOLEAN, user : Users,
   private_network : BOOLEAN, debug : BOOLEAN, forward_tls_env : BOOLEAN,
   logs_tmpfs : BOOLEAN, snapshot_into : {None, "/snap"},
   cap_net_admin : BOOLEAN]

(* A command line of at most n options is a sequence of at most n.        *)
LEMMA BoundedSeqFacts ==
  ASSUME NEW S, NEW n \in Nat, NEW s \in BoundedSeq(S, n)
  PROVE  s \in Seq(S) /\ Len(s) <= n
<1>1. PICK m \in 0 .. n : s \in [1 .. m -> S]
  BY DEF BoundedSeq, SeqOf
<1>2. QED
  BY <1>1

(* What each option on the command line carries. *)
LEMMA ArgsShape ==
  ASSUME NEW a \in Args
  PROVE  /\ a.flag \in CliFlags \cup OptsFlags \cup DebugFlags
         /\ a.flag = "--append-boot-console" => a.val = "console.log"
         /\ a.flag = "--serve-rpm-snapshot" => a.val \in Snapshots
         /\ a.flag = "--snapshot-to-versionlock" =>
              a.val \in Snapshots \X VersionLocks
         /\ a.flag = "--user" => a.val \in Users
         /\ a.flag = "--snapshot-into" => a.val \in SnapshotIntoArgs
<1> DEFINE Switches == {"--boot", "--quiet", "--snapshot", "--no-snapshot",
                        "--no-private-network", "--debug", "--forward-tls-env",
                        "--no-logs-tmpfs", "--cap-net-admin",
                        "--private-network"}
           A1 == {Arg(f, "-") : f \in Switches}
           A2 == {Arg("--append-boot-console", "console.log")}
           A3 == {Arg("--serve-rpm-snapshot", s) : s \in Snapshots}
           A4 == {Arg("--snapshot-to-versionlock", <<s, vl>>) :
                    s \in Snapshots, vl \in VersionLocks}
           A5 == {Arg("--user", u) : u \in Users}
           A6 == {Arg("--snapshot-into", p) : p \in SnapshotIntoArgs}
<1> USE DEF CliFlags, OptsFlags, DebugFlags
<1>1. a \in A1 \cup A2 \cup A3 \cup A4 \cup A5 \cup A6
  BY DEF Args, A1, A2, A3, A4, A5, A6, Switches
<1>2. CASE a \in A1
  <2>1. PICK f \in Switches : a = Arg(f, "-")
    BY <1>2 DEF A1
  <2>2. QED
    BY <2>1 DEF Arg, Switches
<1>3. CASE a \in A2
  BY <1>3 DEF Arg, A2
<1>4. CASE a \in A3
  <2>1. PICK s \in Snapshots : a = Arg("--serve-rpm-snapshot", s)
    BY <1>4 DEF A3
  <2>2. QED
    BY <2>1 DEF Arg
<1>5. CASE a \in A4
  <2>1. PICK s \in Snapshots, vl \in VersionLocks :
          a = Arg("--snapshot-to-versionlock", <<s, vl>>)
    BY <1>5 DEF A4
  <2>2. QED
    BY <2>1 DEF Arg
<1>6. CASE a \in A5
  <2>1. PICK u \in Users : a = Arg("--user", u)
    BY <1>6 DEF A5
  <2>2. QED
    BY <2>1 DEF Arg
<1>7. CASE a \in A6
  <2>1. PICK p \in SnapshotIntoArgs : a = Arg("--snapshot-into", p)
    BY <1>7 DEF A6
  <2>2. a.flag = "--snapshot-into" /\ a.val = p
    BY <2>1 DEF Arg
  <2>3. QED
    BY <2>2
<1>8. QED
  BY <1>1, <1>2, <1>3, <1>4, <1>5, <1>6, <1>7

(* Every option argparse stores leaves a namespace of the same type.  The *)
(* SMT backend cannot read a record EXCEPT; Zenon proves each of those.    *)
LEMMA StoreType ==
  ASSUME NEW n \in NsType, NEW a \in Args
  PROVE  Store(n, a) \in NsType
<1>1. a.flag \in CliFlags \cup OptsFlags \cup DebugFlags
  BY ArgsShape
<1>2. CASE a.flag = "--boot"
  BY <1>2, Zenon DEF Store, NsType
<1>3. CASE a.flag = "--append-boot-console"
  <2>1. a.val \in {None, "console.log"}
    BY <1>3, ArgsShape
  <2>2. QED
    BY <1>3, <2>1, Zenon DEF Store, NsType
<1>4. CASE a.flag = "--serve-rpm-snapshot"
  <2>0. n.serve_rpm_snapshots \in Seq(Snapshots)
    BY Zenon DEF NsType
  <2>1. Append(n.serve_rpm_snapshots, a.val) \in Seq(Snapshots)
    BY <1>4, <2>0, ArgsShape
  <2>2. QED
    BY <1>4, <2>1, Zenon DEF Store, NsType
<1>5. CASE a.flag = "--snapshot-to-versionlock"
  <2>0. n.snapshot_to_versionlock \in Seq(Snapshots \X VersionLocks)
    BY Zenon DEF NsType
  <2>1. Append(n.snapshot_to_versionlock, a.val)
          \in Seq(Snapshots \X VersionLocks)
    BY <1>5, <2>0, ArgsShape
  <2>2. QED
    BY <1>5, <2>1, Zenon DEF Store, NsType
<1>6. CASE a.flag = "--quiet"
  BY <1>6, Zenon DEF Store, NsType
<1>7. CASE a.flag = "--snapshot"
  BY <1>7, Zenon DEF Store, NsType
<1>8. CASE a.flag = "--no-snapshot"
  BY <1>8, Zenon DEF Store, NsType
<1>9. CASE a.flag = "--user"
  <2>1. a.val \in Users
    BY <1>9, ArgsShape
  <2>2. QED
    BY <1>9, <2>1, Zenon DEF Store, NsType
<1>10. CASE a.flag = "--no-private-network"
  BY <1>10, Zenon DEF Store, NsType
<1>11. CASE a.flag = "--private-network"
  BY <1>11, Zenon DEF Store, NsType
<1>12. CASE a.flag = "--debug"
  BY <1>12, Zenon DEF Store, NsType
<1>13. CASE a.flag = "--forward-tls-env"
  BY <1>13, Zenon DEF Store, NsType
<1>14. CASE a.flag = "--no-logs-tmpfs"
  BY <1>14, Zenon DEF Store, NsType
<1>15. CASE a.flag = "--cap-net-admin"
  BY <1>15, Zenon DEF Store, NsType
<1>16. CASE a.flag = "--snapshot-into"
  <2>1. SnapshotIntoValue(a.val) \in {None, "/snap"}
    <3>1. a.val \in SnapshotIntoArgs
      BY <1>16, ArgsShape
    <3>2. QED
      BY <3>1, Zenon DEF SnapshotIntoValue, SnapshotIntoArgs
  <2>2. QED
    BY <1>16, <2>1, Zenon DEF Store, NsType
<1>17. QED
  BY <1>1, <1>2, <1>3, <1>4, <1>5, <1>6, <1>7, <1>8, <1>9, <1>10, <1>11, <1>12, <1>13, <1>14, <1>15, <1>16 DEF CliFlags, OptsFlags, DebugFlags

(* TypeOK, one variable at a time, with the namespace typed in full and   *)
(* the debug-only struct built from the constructor on.                    *)
TyMode == mode \in {"cli", "api"}
TyAllow == allow \in BOOLEAN
TyArgv == argv \in BoundedSeq(Args, MaxArgs)
TyI == i \in 1 .. MaxArgs + 1
TyNs == ns \in NsType
TyVlock == vlock \in UNION {[D -> VersionLocks] : D \in SUBSET Snapshots}
TyDbg ==
  /\ dbg = None \/ dbg \in DebugOptsSet
  /\ pc \in {"new_opts", "cli_args", "done"} => dbg \in DebugOptsSet
TyOpts ==
  opts = None \/ opts \in
    {OptsRecord(n, d) : n \in [quiet : BOOLEAN, snapshot : BOOLEAN,
                               user : Users],
                        d \in DebugOptsSet}
TyPc == pc \in {"parse", "versionlock", "debug_opts", "new_opts",
                "cli_args", "done", "error"}

TInv ==
  /\ TyMode /\ TyAllow /\ TyArgv /\ TyI /\ TyNs /\ TyVlock /\ TyDbg
  /\ TyOpts /\ TyPc

LEMMA TInvTypeOK == TInv => TypeOK
<1>1. TyNs => ns.user \in Users
  BY Zenon DEF TyNs, NsType
<1>2. QED
  BY <1>1 DEF TInv, TypeOK, TyMode, TyAllow, TyArgv, TyI, TyNs,
                     TyVlock, TyDbg, TyOpts, TyPc

(* The namespace argparse starts from, and every keyword call, are typed. *)
LEMMA DefaultType == DefaultNamespace \in NsType /\ ApiKwargs \subseteq NsType
<1>1. << >> \in Seq(Snapshots) /\ << >> \in Seq(Snapshots \X VersionLocks)
  OBVIOUS
<1>2. DefaultNamespace \in NsType
  BY <1>1, Zenon DEF DefaultNamespace, NsType
<1>3. ASSUME NEW x \in ApiKwargs PROVE x \in NsType
  <2>1. PICK q \in BOOLEAN, sn \in BOOLEAN, u \in Users : x = Kwargs(q, sn, u)
    BY DEF ApiKwargs
  <2>2. QED
    BY <1>1, <2>1, Zenon DEF Kwargs, DefaultNamespace, NsType
<1>4. QED
  BY <1>2, <1>3

LEMMA InitTInv == Init => TInv
<1> SUFFICES ASSUME Init PROVE TInv
  OBVIOUS
<1>1. TyMode /\ TyI /\ TyOpts /\ TyPc
  BY DEF Init, TyMode, TyI, TyOpts, TyPc
<1>6. TyVlock
  <2>1. [s \in {} |-> None] \in [{} -> VersionLocks] /\ {} \in SUBSET Snapshots
    OBVIOUS
  <2>2. QED
    BY <2>1 DEF Init, TyVlock
<1>2. TyArgv
  <2>1. << >> \in BoundedSeq(Args, MaxArgs)
    <3>1. << >> \in [1 .. 0 -> Args]
      OBVIOUS
    <3>2. QED
      BY <3>1 DEF BoundedSeq, SeqOf
  <2>2. QED
    BY <2>1 DEF Init, TyArgv
<1>3. TyNs
  BY DefaultType DEF Init, TyNs
<1>4. TyAllow /\ TyDbg
  BY Zenon DEF Init, TyAllow, TyDbg
<1>5. QED
  BY <1>1, <1>2, <1>3, <1>4, <1>6 DEF TInv

(* Which step writes which variable. *)
LEMMA Writers ==
  [Next]_vars =>
    /\ UNCHANGED <<mode, allow, argv>>
    /\ ParseArg \/ UNCHANGED <<i, ns>>
    /\ NormalizeVersionlock \/ UNCHANGED vlock
    /\ ExtractDebugOpts \/ UNCHANGED dbg
    /\ NewNspawnOpts \/ UNCHANGED opts
    /\ pc' \in {"new_opts", "cli_args", "done"} =>
         pc \in {"new_opts", "cli_args", "done"} \/ ExtractDebugOpts
BY DEF Next, vars, ParseArg, CheckBoot, NormalizeVersionlock,
       ExtractDebugOpts, NewNspawnOpts, NewCliArgs, Finished

LEMMA NextTInv == TInv /\ [Next]_vars => TInv'
<1> SUFFICES ASSUME TInv, [Next]_vars PROVE TInv'
  OBVIOUS
<1> USE DEF TInv
<1>1. TyMode' /\ TyArgv'
  BY Writers DEF TyMode, TyArgv
<1>2. TyAllow'
  <2>1. allow' = allow
    BY Writers
  <2>2. QED
    BY <2>1, Zenon DEF TyAllow
<1>3. TyI' /\ TyNs'
  <2>1. CASE ParseArg
    <3>1. argv \in Seq(Args) /\ Len(argv) <= MaxArgs
      BY BoundedSeqFacts, OptsAssumption DEF TyArgv
    <3>2. i \in 1 .. Len(argv)
      BY <2>1 DEF ParseArg, TyI
    <3>3. argv[i] \in Args
      BY <3>1, <3>2
    <3>4. ns' = Store(ns, argv[i]) \/ UNCHANGED <<ns, i>>
      BY <2>1 DEF ParseArg
    <3>5. TyNs'
      BY <3>3, <3>4, StoreType DEF TyNs
    <3>6. i' \in 1 .. MaxArgs + 1
      BY <2>1, <3>1, <3>2 DEF ParseArg, TyI
    <3>7. QED
      BY <3>5, <3>6 DEF TyI
  <2>2. CASE UNCHANGED <<i, ns>>
    BY <2>2 DEF TyI, TyNs
  <2>3. QED
    BY <2>1, <2>2, Writers
<1>4. TyVlock'
  <2>1. CASE NormalizeVersionlock
    <3> DEFINE pairs == ns.snapshot_to_versionlock
               keys == {pairs[k][1] : k \in DOMAIN pairs}
    <3>1. pairs \in Seq(Snapshots \X VersionLocks)
      BY Zenon DEF TyNs, NsType
    <3>2. keys \subseteq Snapshots
      BY <3>1
    <3>3. [s \in keys |-> LET k == CHOOSE k \in DOMAIN pairs : pairs[k][1] = s
                          IN  pairs[k][2]]
            \in [keys -> VersionLocks]
      BY <3>1
    <3>4. UNCHANGED vlock \/ vlock' \in [keys -> VersionLocks]
      BY <2>1, <3>3 DEF NormalizeVersionlock
    <3>5. QED
      BY <3>2, <3>4 DEF TyVlock
  <2>2. CASE UNCHANGED vlock
    BY <2>2 DEF TyVlock
  <2>3. QED
    BY <2>1, <2>2, Writers
<1>5. TyDbg'
  <2>1. CASE ExtractDebugOpts
    <3>1. CASE allow
      <4> DEFINE d == [f \in DOMAIN ProdDebugOpts |-> ns[f]]
      <4>1. DOMAIN ProdDebugOpts =
              {"forward_tls_env", "logs_tmpfs", "snapshot_into",
               "cap_net_admin", "private_network", "debug"}
        BY DEF ProdDebugOpts
      <4>2. d = [forward_tls_env |-> ns.forward_tls_env,
                 logs_tmpfs |-> ns.logs_tmpfs,
                 snapshot_into |-> ns.snapshot_into,
                 cap_net_admin |-> ns.cap_net_admin,
                 private_network |-> ns.private_network,
                 debug |-> ns.debug]
        BY <4>1
      <4>3. d \in DebugOptsSet
        BY <4>2, Zenon DEF TyNs, NsType, DebugOptsSet
      <4>4. dbg' = d
        BY <2>1, <3>1, Zenon DEF ExtractDebugOpts
      <4>5. QED
        BY <4>3, <4>4 DEF TyDbg
    <3>2. CASE ~allow
      <4>1. ProdDebugOpts \in DebugOptsSet
        BY Zenon DEF ProdDebugOpts, DebugOptsSet
      <4>2. dbg' = ProdDebugOpts
        BY <2>1, <3>2, Zenon DEF ExtractDebugOpts
      <4>3. QED
        BY <4>1, <4>2 DEF TyDbg
    <3>3. QED
      BY <3>1, <3>2
  <2>2. CASE UNCHANGED dbg /\ ~ExtractDebugOpts
    BY <2>2, Writers DEF TyDbg
  <2>3. QED
    BY <2>1, <2>2, Writers
<1>6. TyOpts'
  <2>1. CASE NewNspawnOpts
    <3>1. dbg \in DebugOptsSet
      BY <2>1 DEF NewNspawnOpts, TyDbg
    <3>2. ns.quiet \in BOOLEAN /\ ns.snapshot \in BOOLEAN /\ ns.user \in Users
      BY Zenon DEF TyNs, NsType
    <3>3. [quiet |-> ns.quiet, snapshot |-> ns.snapshot, user |-> ns.user]
            \in [quiet : BOOLEAN, snapshot : BOOLEAN, user : Users]
      BY <3>2, Zenon
    <3>4. OptsRecord(ns, dbg) =
            OptsRecord([quiet |-> ns.quiet, snapshot |-> ns.snapshot,
                        user |-> ns.user], dbg)
      BY DEF OptsRecord
    <3>5. UNCHANGED opts \/ opts' = OptsRecord(ns, dbg)
      BY <2>1 DEF NewNspawnOpts
    <3>6. QED
      BY <3>1, <3>3, <3>4, <3>5 DEF TyOpts
  <2>2. CASE UNCHANGED opts
    BY <2>2 DEF TyOpts
  <2>3. QED
    BY <2>1, <2>2, Writers
<1>7. TyPc'
  BY DEF Next, vars, ParseArg, CheckBoot, NormalizeVersionlock,
         ExtractDebugOpts, NewNspawnOpts, NewCliArgs, Finished, TyPc
<1>8. QED
  BY <1>1, <1>2, <1>3, <1>4, <1>5, <1>6, <1>7

(* The options' state is well-typed in every reachable state, whatever    *)
(* the snapshots, version locks, users and length of command line.         *)
THEOREM OptsTypeCorrect == Spec => []TypeOK
<1>1. TInv => TypeOK
  BY TInvTypeOK
<1>2. QED
  BY InitTInv, NextTInv, <1>1, PTL DEF Spec

=============================================================================
