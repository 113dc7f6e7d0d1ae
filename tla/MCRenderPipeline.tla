-------------------------- MODULE MCRenderPipeline --------------------------
(***************************************************************************)
(* RenderPipeline for TLC, in two scenarios.  Either c1 is alone in the    *)
(* project and rendered twice, with an edit in between; or c1 and c2 share *)
(* it and are rendered once.                                               *)
(***************************************************************************)
EXTENDS RenderPipeline

CONSTANTS c1, c2, v1, v2

Alone == c2 \notin present /\ out[c2] = Dir("absent", FALSE) /\ want[c2] = v1

MCInit == Init /\ \/ Alone
                  \/ /\ c1 \in present  \* the components are alike
                     /\ \A c \in Components : want[c] = v1 /\ out[c].tree # v2

(* Bound: edits, a second run, dry runs and --fail-on-error, for c1 alone. *)
MCNext == Next /\ (envs' # envs \/ runs' = 2 \/ opts'.dryRun \/ opts'.failOnError => Alone /\ Alone')

MCSpec == MCInit /\ [][MCNext]_vars
=============================================================================
