---------------------------- MODULE NspawnOpts ----------------------------
(***************************************************************************)
(* The sandbox configuration model of nspawn_in_subvol/args.py: how an     *)
(* _NspawnOpts (with its _NspawnDebugOnlyNotForProdOpts) and the CLI-only  *)
(* _NspawnCLIArgs come to be.  There are two paths:                        *)
(*                                                                         *)
(*   - "api": production code calls new_nspawn_opts with any keyword     *)
(*     arguments, debug_only_opts included;                                *)
(*   - "cli": _parse_cli_args(argv, allow_debug_only_opts) runs argparse   *)
(*     over argv, checks --append-boot-console, normalizes the version    *)
(*     locks, then builds the three structs inside out through             *)
(*     _extract_opts_from_dict, each constructor with its asserts.         *)
(*                                                                         *)
(* argparse is modelled by what it does: it consumes the options left to   *)
(* right, each storing into its `dest` (the last one wins, `append`        *)
(* options accumulate), and an option the parser does not know ends the    *)
(* program with a usage error.  Options that only carry data through to    *)
(* the structs (--layer, cmd, --bindmount-*, --forward-fd, --hostname,     *)
(* --setenv, --bind-repo-ro, --allow-mknod) are left out: no check reads   *)
(* them.  An AssertionError or a usage error both end in "error".          *)
(***************************************************************************)
EXTENDS Naturals, Sequences, SequencesExt

CONSTANTS
  Snapshots,    \* paths a --serve-rpm-snapshot may name
  VersionLocks, \* host paths of version-lock files
  Users,        \* pw_name values --user may name; "root" and "nobody" in it
  MaxArgs,      \* the longest argv considered
  None          \* Python's None: a model value, unequal to every other value

ASSUME OptsAssumption ==
  /\ {"root", "nobody"} \subseteq Users
  /\ MaxArgs \in Nat

(* The options _parse_cli_args and _parser_add_nspawn_opts register, and   *)
(* those _parser_add_debug_only_not_for_prod_opts adds.                    *)
CliFlags == {"--boot", "--append-boot-console", "--serve-rpm-snapshot",
             "--snapshot-to-versionlock"}
OptsFlags == {"--quiet", "--snapshot", "--no-snapshot", "--user",
              "--no-private-network"}
DebugFlags == {"--debug", "--forward-tls-env", "--no-logs-tmpfs",
               "--snapshot-into", "--cap-net-admin", "--private-network"}

Registered(allow) ==
  CliFlags \cup OptsFlags \cup (IF allow THEN DebugFlags ELSE {})

(* The values a --snapshot-into may be given: empty, or a path. *)
SnapshotIntoArgs == {"", "/snap"}

(* One command-line option with its value ("-" for a flag). *)
Arg(f, v) == [flag |-> f, val |-> v]

Args ==
  {Arg(f, "-") : f \in {"--boot", "--quiet", "--snapshot", "--no-snapshot",
                        "--no-private-network", "--debug", "--forward-tls-env",
                        "--no-logs-tmpfs", "--cap-net-admin",
                        "--private-network"}}
  \cup {Arg("--append-boot-console", "console.log")}
  \cup {Arg("--serve-rpm-snapshot", s) : s \in Snapshots}
  \cup {Arg("--snapshot-to-versionlock", <<s, vl>>) :
          s \in Snapshots, vl \in VersionLocks}
  \cup {Arg("--user", u) : u \in Users}
  \cup {Arg("--snapshot-into", p) : p \in SnapshotIntoArgs}

(* The argparse namespace after the defaults are filled in. *)
DefaultNamespace ==
  [boot |-> FALSE, append_boot_console |-> None,
   serve_rpm_snapshots |-> << >>, snapshot_to_versionlock |-> << >>,
   quiet |-> FALSE, snapshot |-> TRUE, user |-> "nobody",
   private_network |-> TRUE, debug |-> FALSE, forward_tls_env |-> FALSE,
   logs_tmpfs |-> TRUE, snapshot_into |-> None, cap_net_admin |-> FALSE]

(* _NspawnDebugOnlyNotForProdOpts() with every field at its default. *)
ProdDebugOpts ==
  [forward_tls_env |-> FALSE, logs_tmpfs |-> TRUE, snapshot_into |-> None,
   cap_net_admin |-> FALSE, private_network |-> TRUE, debug |-> FALSE]

DebugOptsSet ==
  [forward_tls_env : BOOLEAN, logs_tmpfs : BOOLEAN,
   snapshot_into : {None, "/snap"}, cap_net_admin : BOOLEAN,
   private_network : BOOLEAN, debug : BOOLEAN]

(* Bug variant of SnapshotIntoValue: Path.from_argparse alone, so an      *)
(* empty --snapshot-into is kept as a path instead of becoming None.       *)
SnapshotIntoRaw(x) == x

(* --snapshot-into's type=lambda x: Path.from_argparse(x) if x else None *)
SnapshotIntoValue(x) == IF x = "" THEN None ELSE x

(* The action each option's add_argument declares, applied to ns. *)
Store(ns, a) ==
  CASE a.flag = "--boot"              -> [ns EXCEPT !.boot = TRUE]
    [] a.flag = "--append-boot-console" ->
         [ns EXCEPT !.append_boot_console = a.val]
    [] a.flag = "--serve-rpm-snapshot" ->
         [ns EXCEPT !.serve_rpm_snapshots = Append(@, a.val)]
    [] a.flag = "--snapshot-to-versionlock" ->
         [ns EXCEPT !.snapshot_to_versionlock = Append(@, a.val)]
    [] a.flag = "--quiet"             -> [ns EXCEPT !.quiet = TRUE]
    [] a.flag = "--snapshot"          -> [ns EXCEPT !.snapshot = TRUE]
    [] a.flag = "--no-snapshot"       -> [ns EXCEPT !.snapshot = FALSE]
    [] a.flag = "--user"              -> [ns EXCEPT !.user = a.val]
    [] a.flag = "--no-private-network" ->
         [ns EXCEPT !.private_network = FALSE]
    [] a.flag = "--private-network"   -> [ns EXCEPT !.private_network = TRUE]
    [] a.flag = "--debug"             -> [ns EXCEPT !.debug = TRUE]
    [] a.flag = "--forward-tls-env"   -> [ns EXCEPT !.forward_tls_env = TRUE]
    [] a.flag = "--no-logs-tmpfs"     -> [ns EXCEPT !.logs_tmpfs = FALSE]
    [] a.flag = "--cap-net-admin"     -> [ns EXCEPT !.cap_net_admin = TRUE]
    [] a.flag = "--snapshot-into"     ->
         [ns EXCEPT !.snapshot_into = SnapshotIntoValue(a.val)]

VARIABLES
  mode,   \* "cli" (_parse_cli_args) or "api" (new_nspawn_opts)
  allow,  \* allow_debug_only_opts
  argv,   \* the options on the command line
  i,      \* the next option argparse consumes
  ns,     \* the argparse namespace; on the api path, the kwargs
  vlock,  \* the normalized snapshot_to_versionlock mapping
  dbg,    \* the _NspawnDebugOnlyNotForProdOpts built
  opts,   \* the _NspawnOpts built
  pc      \* "parse", "versionlock", "debug_opts", "new_opts",
          \* "cli_args", "done" or "error"

vars == <<mode, allow, argv, i, ns, vlock, dbg, opts, pc>>

OptsRecord(n, d) ==
  [quiet |-> n.quiet, snapshot |-> n.snapshot, user |-> n.user,
   debug_only_opts |-> d]

TypeOK ==
  /\ mode \in {"cli", "api"}
  /\ allow \in BOOLEAN
  /\ argv \in BoundedSeq(Args, MaxArgs)
  /\ i \in 1 .. MaxArgs + 1
  /\ ns.user \in Users
  /\ vlock \in UNION {[D -> VersionLocks] : D \in SUBSET Snapshots}
  /\ dbg = None \/ dbg \in DebugOptsSet
  /\ opts = None \/ opts \in
       {OptsRecord(n, d) : n \in [quiet : BOOLEAN, snapshot : BOOLEAN,
                                  user : Users],
                           d \in DebugOptsSet}
  /\ pc \in {"parse", "versionlock", "debug_opts", "new_opts",
             "cli_args", "done", "error"}

(* The keyword arguments a caller of new_nspawn_opts may pass, as a      *)
(* namespace: the fields _NspawnOpts has, the others left at defaults.     *)
Kwargs(q, sn, u) ==
  [DefaultNamespace EXCEPT !.quiet = q, !.snapshot = sn, !.user = u]

ApiKwargs == {Kwargs(q, sn, u) : q \in BOOLEAN, sn \in BOOLEAN, u \in Users}

(* Either a command line, parsed with or without the debug-only options,  *)
(* or any keyword arguments a caller of new_nspawn_opts may pass.          *)
Init ==
  /\ vlock = [s \in {} |-> None]
  /\ opts = None
  /\ \/ /\ mode = "cli"
        /\ allow \in BOOLEAN
        /\ argv \in BoundedSeq(Args, MaxArgs)
        /\ ns = DefaultNamespace
        /\ dbg = None
        /\ pc = "parse"
     \/ /\ mode = "api"
        /\ allow = FALSE
        /\ argv = << >>
        /\ ns \in ApiKwargs
        /\ dbg \in DebugOptsSet
        /\ pc = "new_opts"
  /\ i = 1

(* Path.parse_args(parser, argv): the next option is stored, or, if this   *)
(* parser does not know it, argparse exits with a usage error.             *)
ParseArg ==
  /\ pc = "parse"
  /\ i <= Len(argv)
  /\ IF argv[i].flag \in Registered(allow)
       THEN /\ ns' = Store(ns, argv[i])
            /\ i' = i + 1
            /\ UNCHANGED pc
       ELSE /\ pc' = "error"
            /\ UNCHANGED <<ns, i>>
  /\ UNCHANGED <<mode, allow, argv, vlock, dbg, opts>>

(* assert args.boot or not args.append_boot_console *)
CheckBoot ==
  /\ pc = "parse"
  /\ i > Len(argv)
  /\ pc' = IF ns.boot \/ ns.append_boot_console = None
             THEN "versionlock" ELSE "error"
  /\ UNCHANGED <<mode, allow, argv, i, ns, vlock, dbg, opts>>

(* _normalize_snapshot_to_versionlock: every snapshot named must be       *)
(* served (assert s in snapshots), and none twice (set_new_key).           *)
NormalizeVersionlock ==
  /\ pc = "versionlock"
  /\ LET pairs == ns.snapshot_to_versionlock
         keys == {pairs[k][1] : k \in DOMAIN pairs}
     IN  IF /\ keys \subseteq ToSet(ns.serve_rpm_snapshots)
            /\ \A k, l \in DOMAIN pairs : pairs[k][1] = pairs[l][1] => k = l
           THEN /\ vlock' = [s \in keys |->
                               LET k == CHOOSE k \in DOMAIN pairs :
                                          pairs[k][1] = s
                               IN  pairs[k][2]]
                /\ pc' = "debug_opts"
           ELSE /\ pc' = "error"
                /\ UNCHANGED vlock
  /\ UNCHANGED <<mode, allow, argv, i, ns, dbg, opts>>

(* The innermost _extract_opts_from_dict: the debug-only fields are popped *)
(* from the namespace only if allow_debug_only_opts; otherwise the struct  *)
(* gets its production defaults.                                           *)
ExtractDebugOpts ==
  /\ pc = "debug_opts"
  /\ dbg' = IF allow THEN [f \in DOMAIN ProdDebugOpts |-> ns[f]]
                     ELSE ProdDebugOpts
  /\ pc' = "new_opts"
  /\ UNCHANGED <<mode, allow, argv, i, ns, vlock, opts>>

(* Bug variant of NewNspawnOpts: the snapshot_into assert left out. *)
NewNspawnOptsNoSnapshotCheck ==
  /\ pc = "new_opts"
  /\ IF ~(ns.quiet /\ dbg.debug)
       THEN /\ opts' = OptsRecord(ns, dbg)
            /\ pc' = IF mode = "cli" THEN "cli_args" ELSE "done"
       ELSE /\ pc' = "error"
            /\ UNCHANGED opts
  /\ UNCHANGED <<mode, allow, argv, i, ns, vlock, dbg>>

(* new_nspawn_opts: assert not (quiet and debug); assert not snapshot_into *)
(* or snapshot.                                                            *)
NewNspawnOpts ==
  /\ pc = "new_opts"
  /\ IF /\ ~(ns.quiet /\ dbg.debug)
        /\ dbg.snapshot_into = None \/ ns.snapshot
       THEN /\ opts' = OptsRecord(ns, dbg)
            /\ pc' = IF mode = "cli" THEN "cli_args" ELSE "done"
       ELSE /\ pc' = "error"
            /\ UNCHANGED opts
  /\ UNCHANGED <<mode, allow, argv, i, ns, vlock, dbg>>

(* _new_nspawn_cli_args: --serve-rpm-snapshot requires --user=root. *)
NewCliArgs ==
  /\ pc = "cli_args"
  /\ pc' = IF ns.serve_rpm_snapshots = << >> \/ opts.user = "root"
             THEN "done" ELSE "error"
  /\ UNCHANGED <<mode, allow, argv, i, ns, vlock, dbg, opts>>

(* The options are built, or the program has stopped on an error. *)
Finished ==
  /\ pc \in {"done", "error"}
  /\ UNCHANGED vars

Next ==
  \/ ParseArg \/ CheckBoot \/ NormalizeVersionlock \/ ExtractDebugOpts
  \/ NewNspawnOpts \/ NewCliArgs \/ Finished

Spec == Init /\ [][Next]_vars

-----------------------------------------------------------------------------
(***************************************************************************)
(* Properties.                                                             *)
(***************************************************************************)

(* Spec 3 and 4.1: whatever the command line or the keyword arguments,     *)
(* the options that come out are valid: not quiet and debug together, no  *)
(* persisted snapshot without snapshotting, repo servers only as root,     *)
(* --append-boot-console only with --boot, and version locks only for     *)
(* snapshots that are served, one each.                                    *)
OptsValid ==
  pc = "done" =>
    /\ ~(opts.quiet /\ opts.debug_only_opts.debug)
    /\ opts.debug_only_opts.snapshot_into # None => opts.snapshot
    /\ mode = "cli" =>
         /\ ns.serve_rpm_snapshots # << >> => opts.user = "root"
         /\ ns.append_boot_console # None => ns.boot
         /\ DOMAIN vlock \subseteq ToSet(ns.serve_rpm_snapshots)

(* The help of --no-private-network says it stops --private-network from  *)
(* being passed: when the command line is accepted, the last of the two   *)
(* options it holds decides private_network.                               *)
PrivateNetworkFlagHonoured ==
  (pc = "done" /\ mode = "cli") =>
    LET k == SelectLastInSeq(argv, LAMBDA a :
               a.flag \in {"--private-network", "--no-private-network"})
    IN  k # 0 =>
          (opts.debug_only_opts.private_network
             <=> argv[k].flag = "--private-network")

=============================================================================
