----------------------------- MODULE AppLaunch -----------------------------
(***************************************************************************)
(* What becomes of the applications that runs generate: the launch at the  *)
(* end of each run's thread (launch_generated_app in server.py), the       *)
(* routes that stop them and tell their status, and the link to each that  *)
(* a dashboard shows.                                                      *)
(*                                                                         *)
(* On POSIX a process that ended keeps its pid until its parent polls it,  *)
(* which the server does only while it waits for the launch.               *)
(***************************************************************************)
EXTENDS FiniteSets

CONSTANTS Runs,
          PortOf   \* the port that is found in each run's application

VARIABLES
  launch,   \* each run's thread: "ready", "spawn", "wait", "install", "respawn", "rewait", "done"
  proc,     \* its process: "none", "starting", "serving", "unfit" (it lacks a package), "ended"
  fit,      \* the packages of its application are there
  app,      \* RunContext.app_pid and app_url: "none", "up", "no_port"
  link,     \* what the dashboard shows: "none", "live", "down"
  crowded,  \* history: runs on whose port another came up while they were launched
  failed    \* history: runs whose application came to an end by itself
appVars == <<launch, proc, fit, app, link, crowded, failed>>

AppInit ==
  /\ launch = [r \in Runs |-> "ready"] /\ proc = [r \in Runs |-> "none"] /\ fit = [r \in Runs |-> FALSE]
  /\ app = [r \in Runs |-> "none"] /\ link = [r \in Runs |-> "none"] /\ crowded = {} /\ failed = {}

Serving(port) == {r \in Runs : proc[r] = "serving" /\ PortOf[r] = port}
PortOpen(port) == Serving(port) # {}

Go(r, to) == launch' = [launch EXCEPT ![r] = to]
Running(r) == launch[r] \in {"spawn", "wait", "install", "respawn", "rewait"}

-----------------------------------------------------------------------------
(* launch_generated_app *)

\* Mutant: the port is not looked at.
AnyPort(r) == TRUE

PortFree(r) == ~PortOpen(PortOf[r])

\* No entry point is found, or the port is in use; nothing is launched.
Find(r) ==
  /\ launch[r] = "ready"
  /\ \/ Go(r, "done") /\ UNCHANGED fit
     \/ PortFree(r) /\ Go(r, "spawn") /\ \E b \in BOOLEAN : fit' = [fit EXCEPT ![r] = b]
  /\ UNCHANGED <<proc, app, link, crowded, failed>>

Spawn(r) ==
  /\ launch[r] \in {"spawn", "respawn"}
  /\ proc' = [proc EXCEPT ![r] = "starting"]
  /\ Go(r, IF launch[r] = "spawn" THEN "wait" ELSE "rewait")
  /\ UNCHANGED <<fit, app, link, crowded, failed>>

Waits(r) == launch[r] \in {"wait", "rewait"}

\* The dashboard gets app_launched.
Reported(r, as) ==
  /\ app' = [app EXCEPT ![r] = as] /\ link' = [link EXCEPT ![r] = "live"] /\ Go(r, "done")

\* _wait_for_app: the process lives and someone answers on the port.
Up(r) ==
  /\ Waits(r) /\ proc[r] \in {"starting", "serving"} /\ PortOpen(PortOf[r])
  /\ Reported(r, "up")
  /\ UNCHANGED <<proc, fit, crowded, failed>>

\* Nobody does, but the process lives.
NoPort(r) ==
  /\ Waits(r) /\ proc[r] = "starting" /\ ~PortOpen(PortOf[r])
  /\ Reported(r, "no_port")
  /\ UNCHANGED <<proc, fit, crowded, failed>>

\* It ended.  If it lacked a package, and this was the first attempt, the packages are
\* installed.
Dead(r) ==
  /\ Waits(r) /\ proc[r] \in {"unfit", "ended"}
  /\ Go(r, IF proc[r] = "unfit" /\ launch[r] = "wait" THEN "install" ELSE "done")
  /\ UNCHANGED <<proc, fit, app, link, crowded, failed>>

\* Another attempt; that the port is still free is not looked at.
Install(r) ==
  /\ launch[r] = "install"
  /\ \/ Go(r, "respawn") /\ fit' = [fit EXCEPT ![r] = TRUE]
     \/ Go(r, "done") /\ UNCHANGED fit
  /\ UNCHANGED <<proc, app, link, crowded, failed>>

-----------------------------------------------------------------------------
(* The processes *)

\* It comes to listen on its port, unless another does.
Bind(r) ==
  /\ proc[r] = "starting"
  /\ proc' = [proc EXCEPT ![r] = IF ~fit[r] THEN "unfit" ELSE IF PortOpen(PortOf[r]) THEN "ended" ELSE "serving"]
  /\ crowded' = IF proc'[r] = "serving"
                THEN crowded \cup {o \in Runs \ {r} : Running(o) /\ PortOf[o] = PortOf[r]} ELSE crowded
  /\ failed' = IF proc'[r] = "serving" THEN failed ELSE failed \cup {r}
  /\ UNCHANGED <<launch, fit, app, link>>

Crash(r) ==
  /\ proc[r] = "serving"
  /\ proc' = [proc EXCEPT ![r] = "ended"] /\ failed' = failed \cup {r}
  /\ UNCHANGED <<launch, fit, app, link, crowded>>

-----------------------------------------------------------------------------
(* The routes *)

\* stop_app.  A window that did not ask may not hear of it, its stream of the run has ended.
StopApp(r) ==
  /\ app[r] # "none"
  /\ app' = [app EXCEPT ![r] = "none"]
  /\ \/ link' = [link EXCEPT ![r] = "down"] \/ UNCHANGED link
  /\ proc' = [proc EXCEPT ![r] = "ended"]
  /\ UNCHANGED <<launch, fit, crowded, failed>>

\* Is its pid still there?  It is, until the application is stopped.
AppRunning(r) == app[r] # "none"

\* app_status, which the dashboard asks every five seconds
Poll(r) ==
  /\ link[r] = "live" /\ ~AppRunning(r)
  /\ link' = [link EXCEPT ![r] = "down"]
  /\ UNCHANGED <<launch, proc, fit, app, crowded, failed>>

AppNext ==
  \E r \in Runs : \/ Find(r) \/ Spawn(r) \/ Up(r) \/ NoPort(r) \/ Dead(r) \/ Install(r)
                  \/ Bind(r) \/ Crash(r) \/ StopApp(r) \/ Poll(r)

AppSpec == AppInit /\ [][AppNext]_appVars

-----------------------------------------------------------------------------
(* Properties *)

\* A live link to an application that was found up leads to that application and never to
\* another run's, unless the other came up on the port while this one was launched, or this
\* one has come to an end by itself, which nobody notices, or was stopped by another window.
LinksLeadHome ==
  \A r \in Runs : link[r] = "live" /\ app[r] = "up" /\ r \notin crowded \cup failed =>
    Serving(PortOf[r]) = {r}
=============================================================================
