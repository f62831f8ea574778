------------------------------- MODULE MCOpc -------------------------------
(***************************************************************************)
(* opc's own process, and the library beside it that starts others: a      *)
(* behaviour runs one of the three.                                        *)
(*   - opc is started with its standard streams or without some of them;   *)
(*   - launch with every behaviour of the three streams, posix_launch with *)
(*     descriptors where pipes are opened otherwise, and pipelines of three*)
(*     children, each from parents that lack some of the descriptors;      *)
(*   - posix_setup asked for any credentials by a parent with any.         *)
(***************************************************************************)
EXTENDS Daemon, PosixStart, PosixSetup, TLC

VARIABLE part  \* which of them runs

opcVars == <<part, daemonVars, startVars, setupVars>>

MCOpens == {{0, 1, 2}, {1, 2}, {2}, {}}

\* A map with the one stream, unless it is to be closed.
Asked(s) == IF s.behavior = "close" THEN <<>> ELSE <<s>>

Context(in, out, err) ==
  [ins |-> Asked(Stream(FALSE, 0, in, 0)),
   outs |-> Asked(Stream(TRUE, 1, out, 1)) \o Asked(Stream(TRUE, 2, err, 1))]

Behaviors == {"close", "inherit", "silence", "capture"}

LaunchJobs ==
  {[open |-> open, children |-> <<Context(in, out, err)>>] :
     open \in MCOpens \cup {{0, 1, 2, 4}}, in \in Behaviors, out \in Behaviors,
     err \in Behaviors \cup {"redirect"}}

PosixLaunchJobs ==
  {[open |-> open,
    children |-> <<[ins |-> <<Stream(FALSE, 5, in, 0)>>,
                    outs |-> <<Stream(TRUE, 3, out, 0), Stream(TRUE, 4, err, 3)>>]>>] :
     open \in {{0, 1, 2}, 0..5}, in \in Behaviors \ {"close"}, out \in Behaviors \ {"close"},
     err \in {"capture", "redirect"}}

PipelineJobs ==
  {[open |-> open,
    children |-> <<Context(in, "close", err), Context("close", "close", err), Context("close", out, last)>>] :
     open \in {{0, 1, 2}, {1, 2}}, in \in {"inherit", "capture"}, out \in {"inherit", "capture"},
     err \in {"close", "capture", "redirect"}, last \in {"close", "redirect"}}

MCJobs == LaunchJobs \cup PosixLaunchJobs \cup PipelineJobs

MCParents == [uid : Ids, euid : Ids, suid : Ids, gid : Ids, egid : Ids, sgid : Ids]

\* The credentials that are left alone while another part runs.
ASSUME PlainAssumption == 1 \in Ids

Plain == [uid |-> 1, euid |-> 1, suid |-> 1, gid |-> 1, egid |-> 1, sgid |-> 1]

SomeJob == CHOOSE j \in MCJobs : TRUE

Init ==
  /\ part \in {"daemon", "start", "setup"}
  /\ DaemonInit /\ (part # "daemon" => given = {} /\ ~handler)
  /\ StartInit /\ (part # "start" => job = SomeJob)
  /\ IF part = "setup"
       THEN SetupInit
       ELSE /\ had = Plain /\ now = Plain /\ call = "chroot" /\ failed = "none"
            /\ asked = [uid |-> 1, euid |-> 1, gid |-> 1, egid |-> 1]

Next ==
  \/ part = "daemon" /\ DaemonNext /\ UNCHANGED <<part, startVars, setupVars>>
  \/ part = "start" /\ StartNext /\ UNCHANGED <<part, daemonVars, setupVars>>
  \/ part = "setup" /\ SetupNext /\ UNCHANGED <<part, daemonVars, startVars>>

Spec == Init /\ [][Next]_opcVars

\* The variables of the three parts hold values of their types.
TypeOK == DaemonTypeOK /\ StartTypeOK /\ SetupTypeOK

\* A process has what it was meant to have, under the conditions that each part
\* names: the daemon's streams if opc was started with its own, those of a child
\* if its parent has open what the contexts name, what the parent keeps always,
\* and a child's credentials if the parent is privileged or has saved no other
\* identity.
AsAsked == DaemonStreams /\ ChildStreams /\ ParentEnds /\ Credentials /\ NotRefused
=============================================================================
