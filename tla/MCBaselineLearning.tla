------------------------- MODULE MCBaselineLearning --------------------------
(***************************************************************************)
(* One session of the tenant the worker serves and, in another tenant, two *)
(* sessions of one subject and device and one without a subject. f is a    *)
(* bare session_stop, e2 comes with a wrong checksum.                      *)
(***************************************************************************)
EXTENDS BaselineLearning

CONSTANTS h1, h2, e1, e2, f, a, b, n, s, a1, a2, anon, system, acme

MCHandlers == {h1, h2}
MCEvents == {e1, e2, f, a, b, n}
MCSessions == {s, a1, a2, anon}
MCTenants == {system, acme}
MCAnonymous == {anon}
MCFeatureless == {f}
MCDegraded == {e2}

MCSessionOf == [e \in MCEvents |->
    CASE e \in {e1, e2, f} -> s [] e = a -> a1 [] e = b -> a2 [] OTHER -> anon]
MCTenantOf == [x \in MCSessions |-> IF x = s THEN system ELSE acme]

\* The last two hold a packet of a session other than the header's.
MCBatches == {[header |-> s, packets |-> <<e1, e2>>], [header |-> s, packets |-> <<f>>],
              [header |-> anon, packets |-> <<n>>],
              [header |-> a1, packets |-> <<a, b>>], [header |-> a2, packets |-> <<b, a>>]}
==============================================================================
