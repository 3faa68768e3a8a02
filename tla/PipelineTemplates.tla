--------------------------- MODULE PipelineTemplates ---------------------------
(***************************************************************************)
(* The pipeline templates a run may be given, and their validation.  The   *)
(* steps of a template are a function from their ids, its roles one from   *)
(* theirs to the roles they may share an agent with.                       *)
(***************************************************************************)
PIPELINE_TEMPLATE_IDS == {"direct", "plan_build", "plan_build_review"}

Step(roleId, dependsOn, handoffRequired) ==
    [roleId |-> roleId, dependsOn |-> dependsOn, handoffRequired |-> handoffRequired]
Edge(from, to) == [from |-> from, to |-> to]
Policies(requiresHandoff) ==
    [freeEditor |-> FALSE, allowSameAgentMultipleRoles |-> TRUE, requiresHandoff |-> requiresHandoff]

PIPELINE_TEMPLATES ==
    [direct |->
        [roles |-> [executor |-> {}],
         steps |-> [execute |-> Step("executor", {}, FALSE)],
         edges |-> {},
         policies |-> Policies(FALSE)],
     plan_build |->
        [roles |-> [planner |-> {"builder"}, builder |-> {"planner"}],
         steps |-> [plan |-> Step("planner", {}, FALSE), build |-> Step("builder", {"plan"}, TRUE)],
         edges |-> {Edge("plan", "build")},
         policies |-> Policies(TRUE)],
     plan_build_review |->
        [roles |-> [planner |-> {"builder", "reviewer"}, builder |-> {"planner", "reviewer"},
                    reviewer |-> {"planner", "builder"}],
         steps |-> [plan |-> Step("planner", {}, FALSE), build |-> Step("builder", {"plan"}, TRUE),
                    review |-> Step("reviewer", {"build"}, TRUE)],
         edges |-> {Edge("plan", "build"), Edge("build", "review")},
         policies |-> Policies(TRUE)]]

\* validatePipelineTemplate; that ids are unique holds for every function.
ValidTemplate(id) ==
    LET t == PIPELINE_TEMPLATES[id] IN
    /\ id \in PIPELINE_TEMPLATE_IDS
    /\ ~t.policies.freeEditor /\ t.policies.allowSameAgentMultipleRoles
    /\ id = "direct" => ~t.policies.requiresHandoff
    /\ \A s \in DOMAIN t.steps :
        t.steps[s].roleId \in DOMAIN t.roles /\ t.steps[s].dependsOn \subseteq DOMAIN t.steps
    /\ \A e \in t.edges : {e.from, e.to} \subseteq DOMAIN t.steps

\* validatePipelineTemplates
ASSUME TemplatesAssumption ==
    /\ DOMAIN PIPELINE_TEMPLATES = PIPELINE_TEMPLATE_IDS
    /\ \A id \in PIPELINE_TEMPLATE_IDS : ValidTemplate(id)

\* The step that depends on no other, and the step a step hands on to.
First(id) ==
    LET steps == PIPELINE_TEMPLATES[id].steps IN CHOOSE s \in DOMAIN steps : steps[s].dependsOn = {}
Following(id, step) == {e.to : e \in {d \in PIPELINE_TEMPLATES[id].edges : d.from = step}}
=============================================================================
