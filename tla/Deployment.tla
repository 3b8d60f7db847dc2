------------------------------ MODULE Deployment ------------------------------
(***************************************************************************)
(* deploy.sh and rollback.sh (src/ci-cd/scripts): rolling updates of two   *)
(* deployments, blue-green switches of the worker and rollbacks, one       *)
(* script at a time, on a cluster whose commands fail and whose new images *)
(* turn out to be bad, at once or later.  kubectl and the cluster are      *)
(* external.                                                               *)
(***************************************************************************)
EXTENDS Integers, Sequences, SequencesExt

CONSTANTS
    Tag,            \* images that may be deployed
    MaxScripts,     \* bound on the scripts that are run
    MaxFaults       \* bound on failing commands and images that turn bad

ClusterAssumption == "v0" \notin Tag /\ {MaxScripts, MaxFaults} \subseteq Nat

Service == {"worker", "api"}
Color == {"blue", "green"}

\* Deployments: migration-worker and api-gateway, without a color or with one.
Name == Service \X (Color \union {"plain"})

VARIABLES
    revisions,  \* of each deployment, its images, the current one last; <<>> if there is none
    scaled,     \* deployments without replicas
    selector,   \* the color each service selects, "plain" if it selects none
    bad,        \* images whose pods do not become ready
    pc,         \* the step of the script that runs, "idle" if none does
    tag, dry,   \* IMAGE_TAG, DRY_RUN_DEPLOY
    captured,   \* the images before the last deployment; v0 is the first image
    previous,   \* PREVIOUS_IMAGE of a rollback
    outcome,    \* of the last script
    fresh,      \* observed: the last deployment replaced both images and succeeded
    audits,     \* statuses of the audit log of rollbacks
    scripts, faults

vars == <<revisions, scaled, selector, bad, pc, tag, dry, captured, previous, outcome,
          fresh, audits, scripts, faults>>

cluster == <<revisions, scaled, selector>>
inputs == <<tag, dry, captured, previous>>

Plain(s) == <<s, "plain">>

\* The image of a deployment, "none" if there is no such deployment.
Image(n) == IF revisions[n] = <<>> THEN "none" ELSE Last(revisions[n])

Ready(n)     == revisions[n] # <<>> /\ n \notin scaled /\ Image(n) \notin bad
RolledOut(n) == revisions[n] # <<>> /\ (n \in scaled \/ Image(n) \notin bad)

\* The manifests have deployments without a color; with colors, the blue one serves.
Init ==
    /\ \E world \in {"plain", "blue"} :
          /\ revisions = [n \in Name |-> IF n[2] = world THEN <<"v0">> ELSE <<>>]
          /\ selector = [s \in Service |-> world]
    /\ scaled = {} /\ bad = {}
    /\ pc = "idle" /\ tag = "v0" /\ dry = FALSE
    /\ captured = [s \in Service |-> "v0"] /\ previous = "empty"
    /\ outcome = "none" /\ fresh = FALSE
    /\ audits = <<>>
    /\ scripts = 0 /\ faults = 0

Fault == faults < MaxFaults /\ faults' = faults + 1

\* An image turns bad, or is found to be.
TurnBad(t) ==
    /\ Fault
    /\ bad' = bad \union {t}
    /\ UNCHANGED <<cluster, pc, inputs, outcome, fresh, audits, scripts>>

Exit(how) == pc' = "idle" /\ outcome' = how /\ UNCHANGED <<inputs, scripts>>
Goto(step) == pc' = step /\ UNCHANGED <<inputs, outcome, fresh, audits, scripts, bad>>

\* on_error: a command fails, and with it the script.
CommandFails ==
    /\ pc # "idle"
    /\ Fault
    /\ Exit("failed")
    /\ UNCHANGED <<cluster, bad, fresh, audits>>

\* An image has one revision.
Others(images, t) ==
    LET at == {i \in DOMAIN images : images[i] = t}
    IN  IF at = {} THEN images ELSE RemoveAt(images, CHOOSE i \in at : TRUE)

\* A new revision, or an old one that becomes the current one again.
Revise(n, t) == revisions' = [revisions EXCEPT ![n] = Append(Others(revisions[n], t), t)]

\* kubectl set image; nothing happens if it is the image already.
SetImage(n, t) == revisions[n] # <<>> /\ Revise(n, t)

Undo_First(n) == Len(revisions[n]) >= 2 /\ Revise(n, revisions[n][1])

\* kubectl rollout undo, which needs an earlier revision.
Undo(n) == Len(revisions[n]) >= 2 /\ Revise(n, revisions[n][Len(revisions[n]) - 1])

\* A command for a deployment that is not there, or has no earlier revision, fails.
Missing(n, depth) ==
    /\ Len(revisions[n]) < depth
    /\ Exit("failed")
    /\ UNCHANGED <<cluster, bad, fresh, audits, faults>>

-------------------------------------------------------------------------------
\* check_prerequisites, verify_cluster_access, verify_namespace, capture_current_state.
StartDeploy(t, first, d) ==
    /\ pc = "idle" /\ scripts < MaxScripts
    /\ scripts' = scripts + 1
    /\ pc' = first /\ tag' = t /\ dry' = d
    /\ captured' = [s \in Service |-> Image(Plain(s))]
    /\ outcome' = "none" /\ fresh' = FALSE
    /\ UNCHANGED <<cluster, bad, previous, audits, faults>>

\* rolling_update: the manifests, which leave the deployments alone, and the worker.
UpdateWorker ==
    /\ pc = "update"
    /\ \/ /\ IF dry THEN revisions[Plain("worker")] # <<>> /\ UNCHANGED revisions
             ELSE SetImage(Plain("worker"), tag)
          /\ Goto("updateApi") /\ UNCHANGED <<scaled, selector, faults>>
       \/ Missing(Plain("worker"), 1)

UpdateApi ==
    /\ pc = "updateApi"
    /\ \/ /\ ~dry /\ SetImage(Plain("api"), tag)
          /\ Goto("waitWorker") /\ UNCHANGED <<scaled, selector, faults>>
       \/ /\ dry /\ revisions[Plain("api")] # <<>>
          /\ Exit("deployed") /\ UNCHANGED <<cluster, bad, fresh, audits, faults>>
       \/ Missing(Plain("api"), 1)

WaitWorker ==
    /\ pc = "waitWorker"
    /\ IF RolledOut(Plain("worker")) THEN Goto("waitApi")
       ELSE Exit("failed") /\ UNCHANGED <<bad, fresh, audits>>
    /\ UNCHANGED <<cluster, faults>>

WaitApi ==
    /\ pc = "waitApi"
    /\ IF RolledOut(Plain("api"))
       THEN /\ Exit("deployed")
            /\ fresh' = \A s \in Service : Image(Plain(s)) # captured[s]
       ELSE Exit("failed") /\ UNCHANGED fresh
    /\ UNCHANGED <<cluster, bad, audits, faults>>

-------------------------------------------------------------------------------
\* blue_green_deploy: the colors are those of the service of the api.
CurrentColor == selector["api"]
NewColor == IF CurrentColor = "blue" THEN "green" ELSE "blue"

\* The other color gets the image; if there is none, it is copied from the current one.
PrepareColor ==
    /\ pc = "prepare"
    /\ \/ /\ revisions[<<"worker", NewColor>>] # <<>>
          /\ SetImage(<<"worker", NewColor>>, tag)
          /\ Goto("waitColor") /\ UNCHANGED <<scaled, selector, faults>>
       \/ /\ revisions[<<"worker", NewColor>>] = <<>>
          /\ CurrentColor \in Color /\ revisions[<<"worker", CurrentColor>>] # <<>>
          /\ revisions' = [revisions EXCEPT ![<<"worker", NewColor>>] = <<tag>>]
          /\ scaled' = IF <<"worker", CurrentColor>> \in scaled
                       THEN scaled \union {<<"worker", NewColor>>} ELSE scaled
          /\ Goto("waitColor") /\ UNCHANGED <<selector, faults>>
       \/ /\ CurrentColor = "plain" /\ Missing(<<"worker", NewColor>>, 1)

\* wait_for_rollout and verify_deployment_health, which wants replicas.
CheckColor ==
    /\ pc = "waitColor"
    /\ IF Ready(<<"worker", NewColor>>) THEN Goto("switch")
       ELSE Exit("failed") /\ UNCHANGED <<bad, fresh, audits>>
    /\ UNCHANGED <<cluster, faults>>

SwitchWorker ==
    /\ pc = "switch"
    /\ selector' = [selector EXCEPT !["worker"] = NewColor]
    /\ Goto("switchApi") /\ UNCHANGED <<revisions, scaled, faults>>

SwitchApi ==
    /\ pc = "switchApi"
    /\ selector' = [selector EXCEPT !["api"] = NewColor]
    /\ Goto("recheck") /\ UNCHANGED <<revisions, scaled, faults>>

OldWorker_New == <<"worker", CurrentColor>>

\* Once the services have the new color, the other one is the old one.
OldWorker == <<"worker", NewColor>>

\* After a minute the old color is scaled down if the new one is still healthy; that
\* scaling fails is only a warning.
Stabilize ==
    /\ pc = "recheck"
    /\ IF Ready(<<"worker", CurrentColor>>)
       THEN Exit("switched") /\ scaled' \in {scaled, scaled \union {OldWorker}}
       ELSE Exit("failed") /\ UNCHANGED scaled
    /\ UNCHANGED <<revisions, selector, bad, fresh, audits, faults>>

-------------------------------------------------------------------------------
\* rollback.sh, by hand or by a pipeline: PREVIOUS_IMAGE is not given, or it is what
\* was captured.
StartRollback(image) ==
    /\ pc = "idle" /\ scripts < MaxScripts
    /\ scripts' = scripts + 1
    /\ pc' = "undo" /\ previous' = image
    /\ fresh' = (fresh /\ outcome = "deployed") /\ outcome' = "none"
    /\ UNCHANGED <<cluster, bad, tag, dry, captured, audits, faults>>

\* image_rollback or native_rollback of the worker.
UndoWorker ==
    /\ pc = "undo"
    /\ \/ /\ IF previous # "empty" THEN SetImage(Plain("worker"), previous)
             ELSE Undo(Plain("worker"))
          /\ Goto("undoApi") /\ UNCHANGED <<scaled, selector, faults>>
       \/ Missing(Plain("worker"), IF previous # "empty" THEN 1 ELSE 2)

\* native_rollback of the api, whatever the deployment did to it.
UndoApi ==
    /\ pc = "undoApi"
    /\ \/ Undo(Plain("api")) /\ Goto("waitUndone") /\ UNCHANGED <<scaled, selector, faults>>
       \/ Missing(Plain("api"), 2)

WaitUndone ==
    /\ pc = "waitUndone"
    /\ IF \A s \in Service : RolledOut(Plain(s))
       THEN Goto("verify")
       ELSE /\ Exit("failed") /\ audits' = Append(audits, "partial_failure")
            /\ UNCHANGED <<bad, fresh>>
    /\ UNCHANGED <<cluster, faults>>

\* verify_health: a degraded state ends the script before it writes its audit log.
VerifyHealth ==
    /\ pc = "verify"
    /\ IF \A s \in Service : Ready(Plain(s))
       THEN Exit("rolledBack") /\ audits' = Append(audits, "success")
       ELSE Exit("failed") /\ UNCHANGED audits
    /\ UNCHANGED <<cluster, bad, fresh, faults>>

ScriptStep ==
    \/ CommandFails
    \/ UpdateWorker \/ UpdateApi \/ WaitWorker \/ WaitApi
    \/ PrepareColor \/ CheckColor \/ SwitchWorker \/ SwitchApi \/ Stabilize
    \/ UndoWorker \/ UndoApi \/ WaitUndone \/ VerifyHealth

Next ==
    \/ ScriptStep
    \/ \E t \in Tag : TurnBad(t) \/ \E d \in BOOLEAN :
          StartDeploy(t, "update", d) \/ StartDeploy(t, "prepare", d)
    \/ \E image \in {"empty", captured["worker"]} : StartRollback(image)
    \/ pc = "idle" /\ UNCHANGED vars

Spec == Init /\ [][Next]_vars

\* Commands return, those that wait with a timeout.
FairSpec == Spec /\ WF_vars(ScriptStep)

-------------------------------------------------------------------------------
\* The types of the variables.
TypeOK ==
    /\ \A n \in Name : \A i \in DOMAIN revisions[n] : revisions[n][i] \in Tag \union {"v0", "none"}
    /\ scaled \subseteq Name /\ bad \subseteq Tag
    /\ selector \in [Service -> Color \union {"plain"}]
    /\ dry \in BOOLEAN /\ fresh \in BOOLEAN
    /\ scripts \in 0..MaxScripts /\ faults \in 0..MaxFaults

\* The service of the worker selects a deployment that is there and has replicas,
\* wherever a switch, a rollback or a failing command ends a script.
TrafficHasWorkers ==
    LET serving == <<"worker", selector["worker"]>>
    IN  revisions[serving] # <<>> /\ serving \notin scaled

\* A deployment that says it succeeded has put its image where the worker's traffic
\* goes, and a rolling update into both deployments.
SuccessIsServed ==
    /\ outcome = "deployed" /\ ~dry => \A s \in Service : Image(Plain(s)) = tag
    /\ outcome = "switched" => Image(<<"worker", selector["worker"]>>) = tag

\* "rolled back successfully to previous stable version": a rollback restores what a
\* deployment that replaced both images and succeeded had found.
RollbackRestores ==
    outcome = "rolledBack" /\ fresh => \A s \in Service : Image(Plain(s)) = captured[s]

\* A script ends.
ScriptsEnd == []<>(pc = "idle")

-------------------------------------------------------------------------------
\* "All deployments rolled back successfully to previous stable version": the api that
\* a failed deployment had not reached is undone too, and goes back one more.
EveryRollbackRestores ==
    outcome = "rolledBack" => \A s \in Service : Image(Plain(s)) = captured[s]

\* The switch of the api's traffic finds a deployment of the color: nobody makes one.
TrafficHasApi == revisions[<<"api", selector["api"]>>] # <<>>

\* "true to run kubectl with --dry-run=server": not in blue-green mode.
DryRunChangesNothing ==
    [][dry /\ pc # "idle" /\ pc \notin {"undo", "undoApi"} => UNCHANGED cluster]_vars

\* "Determine current active color" and deploy to the other one: that was left without
\* replicas, which the check of its health wants, so that a second switch fails.
NextSwitchIsPossible == pc = "idle" => <<"worker", NewColor>> \notin scaled
===============================================================================
