--------------------------- MODULE MCModelService ---------------------------
(***************************************************************************)
(* Small instances of ModelServiceController for TLC.  The definitions     *)
(* below are the values the .cfg files give the constants.                 *)
(***************************************************************************)
EXTENDS ModelServiceProperties

CONSTANTS
    m1, m2,         \* ModelServices
    c1, c2,         \* controller processes
    One, Two,       \* replica counts
    A, B            \* templates

MCValues == {Unset, Zero, Stamp, One, Two, A, B}

\* One object per slot of each ModelService, for the slots a run uses; the
\* others share a name nobody uses.
Named(used) ==
    [m \in ModelServices |->
       [s \in Slots |-> IF s \in used THEN <<m, s>> ELSE <<m, "unused">>]]

\* A ConfigMap keeps the name the base gives it, whichever ModelService renders it.
Sharing(objectOf) ==
    [m \in ModelServices |-> [objectOf[m] EXCEPT !["configMap"] = <<"base", "configMap">>]]

Names(objectOf) == {objectOf[m][s] : m \in ModelServices, s \in Slots}

Section(template, replicas) ==
    [EmptyChild EXCEPT !.template = template, !.replicas = replicas]

PlainSpec ==
    [valid |-> TRUE, baseConfigMapRef |-> FALSE, decoupleScaling |-> FALSE,
     prefill |-> NoChild, decode |-> NoChild, endpointPicker |-> NoChild,
     gatewayRefs |-> Unset]

PrefillSpec(template, replicas) ==
    [PlainSpec EXCEPT !.prefill = Section(template, replicas)]

DecodeSpec(template, replicas) ==
    [PlainSpec EXCEPT !.decode = Section(template, replicas)]

Based(spec) == [spec EXCEPT !.baseConfigMapRef = TRUE]
Decoupled(spec) == [spec EXCEPT !.decoupleScaling = TRUE]
Broken(spec) == [spec EXCEPT !.valid = FALSE]

BaseWith(sections, child) ==
    [EmptyBase EXCEPT !.has = [s \in BaseSections |->
                                 IF s \in sections THEN child ELSE NoChild]]

-----------------------------------------------------------------------------
\* Life: a prefill deployment through incarnations, restarts and failed calls.
LifeSpecs == {PrefillSpec(A, One), PrefillSpec(B, Two)}
LifeObjectOf == Named({"prefillDeployment", "pdServiceAccount"})
LifeObjects == Names(LifeObjectOf)
NoBaseConfig == {EmptyBase}

\* Scaling: others scale, annotate and report on the deployment.
ScalingSpecs == {PrefillSpec(A, One), Decoupled(PrefillSpec(A, Two))}
ScalingEdits == {<<"replicas", Two>>, <<"note", A>>}

\* Services: two ModelServices whose children come from one base ConfigMap that
\* is edited, broken and deleted.
ServicesSpecs == {Based(PlainSpec)}
ServicesBases == {BaseWith({"httpRoute"}, Section(A, Unset)),
                  BaseWith({"httpRoute"}, Section(B, Unset)), NoBase}
ServicesObjectOf == Named({"httpRoute"})
ServicesObjects == Names(ServicesObjectOf)

\* Overlap: an old and a new controller process serve one ModelService, whose only
\* child is the route made from its gateway references.
OverlapSpecs == {[PlainSpec EXCEPT !.gatewayRefs = A], [PlainSpec EXCEPT !.gatewayRefs = B]}
OverlapEdits == {<<"note", A>>}

\* Progress: the API server refuses the prefill deployment, which one of the specs
\* asks for before its service account.
ProgressSpecs == {PrefillSpec(A, One), DecodeSpec(A, One)}
ProgressObjectOf == Named({"prefillDeployment", "decodeDeployment", "pdServiceAccount"})
ProgressObjects == Names(ProgressObjectOf)

\* Violations
ZeroSpecs == {PrefillSpec(A, One), PrefillSpec(A, Zero)}
SharedBases == {BaseWith({"configMap"}, Section(A, Unset))}
SharedObjectOf == Sharing(Named({"configMap"}))
SharedObjects == Names(SharedObjectOf)
=============================================================================
