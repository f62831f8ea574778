----------------------------- MODULE PosixSetup -----------------------------
(***************************************************************************)
(* 3rd/boost_process: posix_setup, with which a child takes its directory  *)
(* and the credentials that its context asks for, before its program runs. *)
(* By default these are the parent's.  A call that fails ends the child.   *)
(***************************************************************************)
EXTENDS Naturals

CONSTANTS
  Ids,     \* the users and groups; Root is one
  Parents  \* the credentials that the process that forks may have

ASSUME IdsAssumption ==
  /\ 0 \in Ids
  /\ Parents \subseteq [uid : Ids, euid : Ids, suid : Ids, gid : Ids, egid : Ids, sgid : Ids]

VARIABLES
  had,    \* the parent's credentials
  asked,  \* those of the posix_setup
  now,    \* the child's: real, effective and saved user and group
  call,   \* the next call, "running" or "failed"
  failed  \* the call that failed, or "none"

setupVars == <<had, asked, now, call, failed>>

Root == 0

SetupInit ==
  /\ had \in Parents /\ now = had
  /\ asked \in [uid : Ids, euid : Ids, gid : Ids, egid : Ids]
  /\ call = "chroot" /\ failed = "none"

IsPrivileged == now.euid = Root

PassesTo(from, to) == call = from /\ call' = to /\ UNCHANGED <<had, asked, failed>>

FailsAt(at) == call = at /\ call' = "failed" /\ failed' = at /\ UNCHANGED <<had, asked, now>>

\* setgid(2) and setuid(2): a privileged process takes the identity for good,
\* another one may take its real or saved one as its effective one.
Taken(real, effective, saved, id) ==
  IF IsPrivileged
    THEN [now EXCEPT ![real] = id, ![effective] = id, ![saved] = id]
    ELSE [now EXCEPT ![effective] = id]

MayTake(real, saved, id) == IsPrivileged \/ id \in {now[real], now[saved]}

\* chroot(2), if there is a directory for it; only a privileged process may.
Chroot ==
  \/ PassesTo("chroot", "gid") /\ UNCHANGED now
  \/ FailsAt("chroot")

SetGid ==
  \/ PassesTo("gid", "egid") /\ asked.gid = now.gid /\ UNCHANGED now
  \/ /\ asked.gid # now.gid /\ MayTake("gid", "sgid", asked.gid)
     /\ PassesTo("gid", "egid") /\ now' = Taken("gid", "egid", "sgid", asked.gid)
  \/ asked.gid # now.gid /\ ~MayTake("gid", "sgid", asked.gid) /\ FailsAt("gid")

SetEgid ==
  \/ PassesTo("egid", "uid") /\ asked.egid = now.egid /\ UNCHANGED now
  \/ /\ asked.egid # now.egid /\ MayTake("gid", "sgid", asked.egid)
     /\ PassesTo("egid", "uid") /\ now' = [now EXCEPT !.egid = asked.egid]
  \/ asked.egid # now.egid /\ ~MayTake("gid", "sgid", asked.egid) /\ FailsAt("egid")

SetUid ==
  \/ PassesTo("uid", "euid") /\ asked.uid = now.uid /\ UNCHANGED now
  \/ /\ asked.uid # now.uid /\ MayTake("uid", "suid", asked.uid)
     /\ PassesTo("uid", "euid") /\ now' = Taken("uid", "euid", "suid", asked.uid)
  \/ asked.uid # now.uid /\ ~MayTake("uid", "suid", asked.uid) /\ FailsAt("uid")

\* Mutant: the effective user is not asked for.
SetEuidNot == PassesTo("euid", "chdir") /\ UNCHANGED now

SetEuid ==
  \/ PassesTo("euid", "chdir") /\ asked.euid = now.euid /\ UNCHANGED now
  \/ /\ asked.euid # now.euid /\ MayTake("uid", "suid", asked.euid)
     /\ PassesTo("euid", "chdir") /\ now' = [now EXCEPT !.euid = asked.euid]
  \/ asked.euid # now.euid /\ ~MayTake("uid", "suid", asked.euid) /\ FailsAt("euid")

\* chdir(2), then execve(2), which saves the effective credentials.
Chdir ==
  \/ PassesTo("chdir", "running") /\ now' = [now EXCEPT !.suid = now.euid, !.sgid = now.egid]
  \/ FailsAt("chdir")

SetupNext == Chroot \/ SetGid \/ SetEgid \/ SetUid \/ SetEuid \/ Chdir

SetupSpec == SetupInit /\ [][SetupNext]_setupVars
-----------------------------------------------------------------------------
(***************************************************************************)
(* What must hold.                                                         *)
(***************************************************************************)

\* A program runs with all the credentials that were asked for: they have become
\* effective.  Not so if the parent is unprivileged and has saved an identity
\* that is not its real one: setuid(2) to that one succeeds, and leaves the real
\* user as it was.
PropertiesEffective ==
  call = "running" =>
    asked = [uid |-> now.uid, euid |-> now.euid, gid |-> now.gid, egid |-> now.egid]

\* From any other parent it has all of them or does not run: none of the calls
\* takes back what an earlier one has set.
Credentials ==
  had.euid = Root \/ (had.suid = had.uid /\ had.sgid = had.gid) => PropertiesEffective

\* A privileged parent's child is refused nothing but an effective user after its
\* real one has become another user, for good: the groups are taken before that,
\* while the child may take any.
NotRefused ==
  had.euid = Root =>
    /\ failed \notin {"gid", "egid", "uid"}
    /\ failed = "euid" => asked.uid \notin {Root, had.uid, asked.euid}

\* The variables hold values of their types.
SetupTypeOK ==
  /\ \A c \in DOMAIN now : now[c] \in Ids
  /\ call \in {"chroot", "gid", "egid", "uid", "euid", "chdir", "running", "failed"}
  /\ failed \in {"none", "chroot", "gid", "egid", "uid", "euid", "chdir"}
=============================================================================
