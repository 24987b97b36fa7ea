------------------------------ MODULE MCFlowExecutor ------------------------------
(***********************************************************************************)
(* Instances of FlowExecutor: an iteration whose second step is made of the first  *)
(* one's answer, and iterations that fail before they send anything.               *)
(***********************************************************************************)
EXTENDS FlowExecutor

Step(flow, refs, encodes) == [flow |-> flow, refs |-> refs, encodes |-> encodes]

CreateAndGet ==
    << Step("create", {}, TRUE),
       Step("get", {<<"create", "responseBody">>}, TRUE),
       Step("create", {<<"get", "endpoint">>, <<"create", "endpoint">>}, TRUE) >>
Unencodable   == << Step("create", {}, FALSE) >>
NeverAnswered == << Step("get", {<<"create", "endpoint">>}, TRUE) >>

MCIterations == << CreateAndGet, Unencodable, NeverAnswered >>
\* One thread whose Lua state serves two connections, in every mode; two threads and three
\* connections, of which one each is opened; and every second response logged.
Mode(threads, connections, reuse, failOnNon2xx, logEvery) ==
    [threads |-> threads, connections |-> connections, reuse |-> reuse,
     failOnNon2xx |-> failOnNon2xx, logEvery |-> logEvery]
MCModes ==
    {Mode(1, 2, reuse, fails, 0) : reuse \in {"wrap", "stop"}, fails \in BOOLEAN}
    \cup {Mode(2, 3, "stop", TRUE, 0), Mode(2, 3, "wrap", FALSE, 0),
          Mode(1, 2, "wrap", TRUE, 2)}
===================================================================================
