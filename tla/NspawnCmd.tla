----------------------------- MODULE NspawnCmd -----------------------------
(***************************************************************************)
(* The command builder of nspawn_in_subvol/cmd.py: from an _NspawnOpts,    *)
(* the host's environment and three facts about the filesystem, the        *)
(* systemd-nspawn command line (_nspawn_cmd followed by the arguments of   *)
(* _extra_nspawn_args_and_env), the environment of the nspawn process      *)
(* (nspawn_sanitize_env) and the `K=V` settings of the user's command.     *)
(* This is the pure part of _nspawn_setup; NspawnLifecycle models the      *)
(* snapshot around it.                                                     *)
(*                                                                         *)
(* An argument is a record: its option and, for one with a value, the      *)
(* value.  A path is a sequence of characters (BindArgs); a path the code  *)
(* writes as a literal has no special character and is one symbol here.    *)
(***************************************************************************)
EXTENDS Naturals, Sequences, SequencesExt, BindArgs

CONSTANTS
  EnvKeys,       \* names the host environment may hold
  TlsKeys,       \* those that start with THRIFT_TLS_
  ReservedKeys,  \* those that start with SYSTEMD_NSPAWN_
  EnvValues,     \* values of host environment variables
  SetenvKeys,    \* names opts.setenv may set
  SetenvValues,  \* values opts.setenv may give them
  BindPairs,     \* (src, dest) pairs a bindmount_ro / bindmount_rw may hold
  Machines,      \* values uuid.uuid4().hex may take
  Unset          \* a model value: the variable is not set

ASSUME CmdAssumption ==
  /\ TlsKeys \subseteq EnvKeys
  /\ ReservedKeys \subseteq EnvKeys
  /\ TlsKeys \cap ReservedKeys = {}
  /\ SetenvKeys \subseteq EnvKeys
  /\ Unset \notin EnvValues \cup SetenvValues

(* Literal paths of the code. *)
DevNull == <<"/dev/null">>
UsrLibOsRelease == <<"/usr/lib/os-release">>
DevFuse == <<"/dev/fuse">>
RepoRoot == <<"/repo">>           \* os.path.realpath(find_repo_root())
SubvolPath == <<"/subvol">>       \* nspawn_subvol.path()

Tok(f) == [flag |-> f, arg |-> << >>]

(* One K=V setting. *)
Entry(k, v) == [key |-> k, val |-> v]

VARIABLES
  opts,   \* the _NspawnOpts the builder reads
  env,    \* os.environ: a function from the names set to their values
  facts,  \* os-release in the image, artifacts_may_require_repo, /dev/fuse
  out     \* the _NspawnSetup fields built, or << >> before

vars == <<opts, env, facts, out>>

-----------------------------------------------------------------------------
(* _inject_os_release_args: a fake os-release unless the image has one at *)
(* /usr/lib/os-release or /etc/os-release.                                 *)
InjectOsReleaseArgs(has_os_release) ==
  IF has_os_release THEN << >>
                    ELSE <<BindArgs(DevNull, UsrLibOsRelease, TRUE)>>

(* _nspawn_cmd(nspawn_subvol), with the machine name drawn by uuid4. *)
NspawnCmdArgs(machine, has_os_release) ==
  << Tok("env"), Tok("UNIFIED_CGROUP_HIERARCHY=yes"), Tok("systemd-nspawn"),
     Tok("--register=no"), Tok("--keep-unit"),
     [flag |-> "--machine", arg |-> machine],
     [flag |-> "--directory", arg |-> SubvolPath] >>
  \o InjectOsReleaseArgs(has_os_release)
  \o << Tok("--link-journal=no"), Tok("--settings=no"), Tok("--timezone=off") >>

If(c, s) == IF c THEN s ELSE << >>

(* Bug variant of BindmountArgs: bind_args(src, dest) for the read-write  *)
(* mounts too, so that they come out read-only.                            *)
BindmountArgsAllRo(o) ==
  [k \in DOMAIN o.bindmount_rw |->
     BindArgs(o.bindmount_rw[k][1], o.bindmount_rw[k][2], TRUE)]
  \o [k \in DOMAIN o.bindmount_ro |->
        BindArgs(o.bindmount_ro[k][1], o.bindmount_ro[k][2], TRUE)]

(* The read-write bind mounts, then the read-only ones, in their order. *)
BindmountArgs(o) ==
  [k \in DOMAIN o.bindmount_rw |->
     BindArgs(o.bindmount_rw[k][1], o.bindmount_rw[k][2], FALSE)]
  \o [k \in DOMAIN o.bindmount_ro |->
        BindArgs(o.bindmount_ro[k][1], o.bindmount_ro[k][2], TRUE)]

(* The argument list of _extra_nspawn_args_and_env, in its order. *)
ExtraNspawnArgs(o, f) ==
  If(o.quiet, <<Tok("--quiet")>>)
  \o If(o.debug_only_opts.private_network, <<Tok("--private-network")>>)
  \o BindmountArgs(o)
  \o If(o.bind_repo_ro \/ f.may_require_repo,
        <<BindArgsSame(RepoRoot, TRUE)>>)
  \o If(o.debug_only_opts.logs_tmpfs,
        <<[flag |-> "--tmpfs=/logs", arg |-> o.user]>>)
  \o If(f.dev_fuse, <<[flag |-> "--bind-ro", arg |-> DevFuse]>>)
  \o If(o.debug_only_opts.cap_net_admin, <<Tok("--capability=CAP_NET_ADMIN")>>)
  \o If(o.hostname # "", <<[flag |-> "--hostname", arg |-> o.hostname]>>)
  \o If(~o.allow_mknod, <<Tok("--drop-capability=CAP_MKNOD")>>)

(* Bug variant of CmdEnv: the user's settings first, the forwarded TLS    *)
(* variables after them.                                                   *)
CmdEnvTlsLast(o, e) ==
  o.setenv
  \o (IF o.debug_only_opts.forward_tls_env
        THEN FoldLeft(LAMBDA acc, k :
                        IF k \in TlsKeys THEN <<Entry(k, e[k])>> \o acc
                                         ELSE acc,
                      << >>, SetToSeq(DOMAIN e))
        ELSE << >>)

(* cmd_env: each THRIFT_TLS_ variable of os.environ inserted at position   *)
(* 0 in the order os.environ yields them, then opts.setenv appended.       *)
CmdEnv(o, e) ==
  (IF o.debug_only_opts.forward_tls_env
     THEN FoldLeft(LAMBDA acc, k :
                     IF k \in TlsKeys THEN <<Entry(k, e[k])>> \o acc
                                      ELSE acc,
                   << >>, SetToSeq(DOMAIN e))
     ELSE << >>)
  \o o.setenv

(* nspawn_sanitize_env: os.environ less every SYSTEMD_NSPAWN_ variable. *)
SanitizeEnv(e) == [k \in DOMAIN e \ ReservedKeys |-> e[k]]

-----------------------------------------------------------------------------
(* The options the builder is called with.  The flags that only append an *)
(* argument of their own come as a whole: production defaults, or every   *)
(* one flipped.                                                            *)
SimpleFlagSets ==
  { [quiet |-> FALSE, hostname |-> "", allow_mknod |-> FALSE,
     private_network |-> TRUE, logs_tmpfs |-> TRUE, cap_net_admin |-> FALSE],
    [quiet |-> TRUE, hostname |-> "h", allow_mknod |-> TRUE,
     private_network |-> FALSE, logs_tmpfs |-> FALSE, cap_net_admin |-> TRUE] }

SetenvEntries == {Entry(k, v) : k \in SetenvKeys, v \in SetenvValues}

OptsChoices ==
  { [quiet |-> s.quiet, hostname |-> s.hostname, allow_mknod |-> s.allow_mknod,
     user |-> "nobody", bind_repo_ro |-> r,
     bindmount_rw |-> rw, bindmount_ro |-> ro, setenv |-> se,
     debug_only_opts |-> [private_network |-> s.private_network,
                          logs_tmpfs |-> s.logs_tmpfs,
                          cap_net_admin |-> s.cap_net_admin,
                          forward_tls_env |-> fw]] :
      s \in SimpleFlagSets, r \in BOOLEAN, fw \in BOOLEAN,
      rw \in BoundedSeq(BindPairs, 1), ro \in BoundedSeq(BindPairs, 1),
      se \in BoundedSeq(SetenvEntries, 2) }

HostEnvs == UNION {[D -> EnvValues] : D \in SUBSET EnvKeys}

Init ==
  /\ opts \in OptsChoices
  /\ env \in HostEnvs
  /\ facts \in [has_os_release : BOOLEAN, may_require_repo : BOOLEAN,
                dev_fuse : BOOLEAN]
  /\ out = << >>

(* The body of _nspawn_setup once the subvolume is ready. *)
Build ==
  /\ out = << >>
  /\ \E machine \in Machines :
       out' = [nspawn_cmd |-> NspawnCmdArgs(machine, facts.has_os_release)
                              \o ExtraNspawnArgs(opts, facts),
               nspawn_env |-> SanitizeEnv(env),
               cmd_env |-> CmdEnv(opts, env)]
  /\ UNCHANGED <<opts, env, facts>>

(* The setup is a value; nothing more happens to it here. *)
Built ==
  /\ out # << >>
  /\ UNCHANGED vars

Next == Build \/ Built

Spec == Init /\ [][Next]_vars

-----------------------------------------------------------------------------
(***************************************************************************)
(* Properties.                                                             *)
(***************************************************************************)

(* The value a list of K=V settings gives k: the last one wins. *)
Effective(settings, k) ==
  LET idx == SelectLastInSeq(settings, LAMBDA x : x.key = k)
  IN  IF idx = 0 THEN Unset ELSE settings[idx].val

(* Spec 4.2: in the user's command each variable has the value of its last *)
(* opts.setenv entry if there is one; otherwise, with forward_tls_env, a   *)
(* THRIFT_TLS_ variable keeps the host's value; no other host variable     *)
(* reaches the command.                                                    *)
EnvPrecedence ==
  out # << >> =>
    \A k \in EnvKeys :
      Effective(out.cmd_env, k) =
        IF Effective(opts.setenv, k) # Unset THEN Effective(opts.setenv, k)
        ELSE IF opts.debug_only_opts.forward_tls_env /\ k \in TlsKeys
                /\ k \in DOMAIN env
               THEN env[k]
               ELSE Unset

(* A bind mount as systemd-nspawn reads it back from one argument. *)
ReadMount(a) ==
  LET fs == NspawnFields(a.arg)
  IN  [src |-> fs[1], dest |-> IF Len(fs) > 1 THEN fs[2] ELSE fs[1],
       ro |-> a.flag = "--bind-ro", extra |-> Len(fs) > 2]

Mount(s, d, ro) == [src |-> s, dest |-> d, ro |-> ro, extra |-> FALSE]

(* Spec 4.2: the container gets exactly the mounts asked for, each with    *)
(* its own source, destination and access, and no other: the fake          *)
(* os-release when the image has none, the read-write mounts, the          *)
(* read-only ones, the repository when asked for or needed, /dev/fuse when *)
(* the host has it.                                                        *)
MountsAsConfigured ==
  out # << >> =>
    LET binds == SelectSeq(out.nspawn_cmd,
                           LAMBDA a : a.flag \in {"--bind", "--bind-ro"})
    IN  [k \in DOMAIN binds |-> ReadMount(binds[k])] =
          If(~facts.has_os_release, <<Mount(DevNull, UsrLibOsRelease, TRUE)>>)
          \o [k \in DOMAIN opts.bindmount_rw |->
                Mount(opts.bindmount_rw[k][1], opts.bindmount_rw[k][2], FALSE)]
          \o [k \in DOMAIN opts.bindmount_ro |->
                Mount(opts.bindmount_ro[k][1], opts.bindmount_ro[k][2], TRUE)]
          \o If(opts.bind_repo_ro \/ facts.may_require_repo,
                <<Mount(RepoRoot, RepoRoot, TRUE)>>)
          \o If(facts.dev_fuse, <<Mount(DevFuse, DevFuse, TRUE)>>)

=============================================================================
