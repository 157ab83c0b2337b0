------------------------------- MODULE Launch -------------------------------
(***************************************************************************)
(* main.go, internal/elevate and update.Restart: how one start of the tool *)
(* becomes a chain of processes.  A process may hand over to an elevated   *)
(* copy, and after an update to a copy of the new version; each copy gets  *)
(* a command line and an environment from the one before.  The files and   *)
(* the update itself are those of Update, whose steps are used here.       *)
(*                                                                         *)
(* -version, which prints and exits, is left out.                          *)
(***************************************************************************)
EXTENDS Update, Sequences, FiniteSets

CONSTANTS
  Requests,  \* command lines of the user, without the program name
  MaxStarts  \* bound: starts by the user, over the whole behaviour

ASSUME LaunchAssumption ==
  /\ IsFiniteSet(Proc) /\ MaxStarts \in Nat \ {0}
  /\ \A r \in Requests : r \in Seq({"-once", "-list", "-no-update", "-no-elevate"})

VARIABLES
  phase,     \* where main is between the steps of Update: "elevate", "guard"
             \* or "leave", when it is about to return
  args,      \* os.Args[1:]
  env,       \* the value of EnvUpdated, NoTag when it is not set
  elevated,  \* the token has administrator rights
  origin,    \* the start of the user the process goes back to
  starts     \* starts so far

\* History, read by the properties only: the command line of each start, and
\* the starts one of whose processes was killed or could not restart.
VARIABLES request, broken

launch == <<phase, args, env, elevated, origin, starts, request, broken>>
lvars == <<vars, launch>>

NoTag == <<>>
Tag(r) == <<"v", r>>     \* the name of a release on GitHub: "v1.2.3"
Version(r) == <<r>>      \* what goreleaser compiles in: "1.2.3"

LaunchInit ==
  /\ Init
  /\ phase = [t \in Proc |-> "elevate"]
  /\ args = [t \in Proc |-> <<>>] /\ env = [t \in Proc |-> NoTag]
  /\ elevated = [t \in Proc |-> FALSE] /\ origin = [t \in Proc |-> 0]
  /\ starts = 0
  /\ request = [c \in 1 .. MaxStarts |-> <<>>] /\ broken = {}

-----------------------------------------------------------------------------
(* Command lines.                                                           *)

\* flag.Parse stops at the first argument that is not a flag.
Flags(line) ==
  {line[i] : i \in {i \in DOMAIN line : \A j \in 1 .. i : line[j] # "program"}}

Has(t, f) == f \in Flags(args[t])

\* RelaunchAsAdmin gets os.Args, the program name included.
AdminArgs(line) == <<"program">> \o line \o <<"-no-elevate">>

-----------------------------------------------------------------------------
(* Processes.                                                               *)

\* A process of start c: Update's Start with a command line and a token.
Begin(u, c, line, tag, admin) ==
  /\ Start(u)
  /\ args' = [args EXCEPT ![u] = line]
  /\ env' = [env EXCEPT ![u] = tag]
  /\ elevated' = [elevated EXCEPT ![u] = admin]
  /\ origin' = [origin EXCEPT ![u] = c]

UserStarts(u, line) ==
  /\ starts < MaxStarts /\ starts' = starts + 1
  /\ \E admin \in BOOLEAN : Begin(u, starts', line, NoTag, admin)
  /\ request' = [request EXCEPT ![starts'] = line]
  /\ UNCHANGED <<phase, broken>>

Vanish(t) ==
  /\ End(t)
  /\ phase' = [phase EXCEPT ![t] = "elevate"]
  /\ args' = [args EXCEPT ![t] = <<>>] /\ env' = [env EXCEPT ![t] = NoTag]
  /\ elevated' = [elevated EXCEPT ![t] = FALSE]
  /\ origin' = [origin EXCEPT ![t] = 0]

\* run returns after a copy was started or the restart failed.
Leave(t) ==
  /\ phase[t] = "leave"
  /\ Vanish(t)
  /\ UNCHANGED <<starts, request, broken>>

\* app.Run returns.
Finish(t) ==
  /\ pc[t] = "run"
  /\ Vanish(t)
  /\ UNCHANGED <<starts, request, broken>>

Kill(t) ==
  /\ Vanish(t)
  /\ broken' = broken \cup {origin[t]}
  /\ UNCHANGED <<starts, request>>

-----------------------------------------------------------------------------
(* main, after CleanupOld.                                                  *)

\* Between CleanupOld and the update.
At(t, p) == pc[t] = "started" /\ phase[t] = p

Leaves(t) == phase' = [phase EXCEPT ![t] = "leave"]

WantsElevation(t) ==
  ~Has(t, "-no-elevate") /\ ~Has(t, "-list") /\ ~elevated[t]

\* Fault: after the handover main goes on.
RelaunchAndStay(t, u) ==
  /\ At(t, "elevate") /\ WantsElevation(t)
  /\ \E tag \in {env[t], NoTag} : Begin(u, origin[t], AdminArgs(args[t]), tag, TRUE)
  /\ phase' = [phase EXCEPT ![t] = "guard"]
  /\ UNCHANGED <<starts, request, broken>>

\* The prompt is accepted.  ShellExecuteW does not say what becomes of the
\* environment.
RelaunchAsAdmin(t, u) ==
  /\ At(t, "elevate") /\ WantsElevation(t)
  /\ \E tag \in {env[t], NoTag} : Begin(u, origin[t], AdminArgs(args[t]), tag, TRUE)
  /\ Leaves(t)
  /\ UNCHANGED <<starts, request, broken>>

\* Fault: main returns when the prompt is declined.
StayDeclined(t) ==
  /\ At(t, "elevate")
  /\ phase' = [phase EXCEPT ![t] = IF WantsElevation(t) THEN "leave" ELSE "guard"]
  /\ UNCHANGED <<vars, args, env, elevated, origin, starts, request, broken>>

\* There is no need to elevate, the prompt is declined or the call fails.
Stay(t) ==
  /\ At(t, "elevate")
  /\ phase' = [phase EXCEPT ![t] = "guard"]
  /\ UNCHANGED <<vars, args, env, elevated, origin, starts, request, broken>>

WantsUpdate(t) ==
  /\ ~Has(t, "-no-update") /\ ~Has(t, "-once") /\ ~Has(t, "-list")
  /\ env[t] # Version(ver[t])

Guard(t) ==
  /\ At(t, "guard")
  /\ IF WantsUpdate(t) THEN MaybeAuto(t) ELSE Skip(t)
  /\ UNCHANGED launch

\* Restart starts whatever is at the path now.
Restart(t, u) ==
  /\ pc[t] = "installed" /\ phase[t] = "guard"
  /\ Begin(u, origin[t], args[t], Tag(target[t].release), elevated[t])
  /\ Leaves(t)
  /\ UNCHANGED <<starts, request, broken>>

RestartFails(t) ==
  /\ pc[t] = "installed" /\ phase[t] = "guard"
  /\ Leaves(t)
  /\ broken' = broken \cup {origin[t]}
  /\ UNCHANGED <<vars, args, env, elevated, origin, starts, request>>

\* What a live process does by itself until app.Run.
Main(t) ==
  \/ (CleanupOld(t) \/ Install(t)) /\ UNCHANGED launch
  \/ Stay(t) \/ Guard(t) \/ RestartFails(t) \/ Leave(t)
  \/ \E u \in Proc : RelaunchAsAdmin(t, u) \/ Restart(t, u)

LaunchNext ==
  \/ Publish /\ UNCHANGED launch
  \/ \E t \in Proc : \/ Main(t) \/ Finish(t) \/ Kill(t)
                     \/ \E line \in Requests : UserStarts(t, line)

LaunchSpec == LaunchInit /\ [][LaunchNext]_lvars

\* main is straight-line code whose calls return or time out.  Nobody has to
\* start or kill anything, to publish a release or to stop the monitor.
LaunchFairSpec == LaunchSpec /\ \A t \in Proc : WF_lvars(Main(t))

-----------------------------------------------------------------------------
(* Properties.                                                              *)

Starts == 1 .. MaxStarts
Running(c) == {t \in Proc : origin[t] = c /\ pc[t] = "run"}
Starting(c) ==
  {t \in Proc : origin[t] = c /\ pc[t] # "run" /\ phase[t] # "leave"}

\* Every variable keeps its type, Update's too, and who installs an update is
\* neither about to return nor waiting for a prompt.
LaunchTypeOK ==
  /\ TypeOK
  /\ phase \in [Proc -> {"elevate", "guard", "leave"}]
  /\ elevated \in [Proc -> BOOLEAN]
  /\ origin \in [Proc -> 0 .. starts] /\ starts \in 0 .. MaxStarts
  /\ broken \subseteq 1 .. starts
  /\ \A t \in Proc : Live(t) = (origin[t] # 0)
  /\ \A t \in Proc : pc[t] \notin {"off", "cleanup", "started"} =>
       phase[t] = "guard" \/ pc[t] = "installed"

\* One start of the user gives one running tool: the process that hands over
\* never comes to app.Run beside its copy, so no two monitors of one start
\* compete for the hotkey.
OneHeir == \A c \in Starts : Cardinality(Running(c)) <= 1

\* A start leads to app.Run in one of its copies, unless one of them is killed
\* or the restart fails: no handover leaves the user with nothing.
RequestServed ==
  \A c \in Starts :
    Starting(c) # {} ~> Running(c) # {} \/ c \in broken

\* The chains of copies end, though the restart-loop guard never holds one up:
\* elevation happens once and every restart is into a newer version.
ChainsEnd == <>[](\A t \in Proc : pc[t] \in {"off", "run"})

-----------------------------------------------------------------------------
(* What the repository says and the code does not do.                       *)

\* elevate_windows.go: the elevated copy has "the same arguments plus
\* -no-elevate".  Not so: it reads none of them, -no-elevate included.
SameArguments ==
  \A t \in Proc : Live(t) =>
    Flags(args[t]) \ {"-no-elevate"} = Flags(request[origin[t]]) \ {"-no-elevate"}

\* apply.go: the restarted process "skips the immediate re-check".  Not so: the
\* tag in the environment starts with a "v", the version of the build does not.
SkipsRecheck == \A t \in Proc : env[t] # NoTag => pc[t] # "fetch"
=============================================================================
