-------------------------------- MODULE MCHost --------------------------------
(***************************************************************************)
(* One TLC run over the parts that connect the worker with its clients,    *)
(* its model and the providers of its tools.  They share no state: the     *)
(* initial state picks the part that moves, so the explored space is the   *)
(* sum of theirs, not the product.                                         *)
(***************************************************************************)
EXTENDS ModelCalls, RemoteTools, TurnTransport, RefinementFlow,
    ChildSession, PromptContext, ThreadStores, TuiClient, EditorClient,
    TaskBoard, McpServers, WorkspaceViews, WorkspaceFiles, WebStream

LOCAL INSTANCE Integers
LOCAL INSTANCE Sequences

CONSTANT Parts

VARIABLE part

hostVars == <<part, mdlVars, rtVars, chVars, psVars, rfVars, csVars, pcVars, stVars, tuVars, ecVars, tbVars, msVars, wvVars, wfVars, wsVars>>

\* A turn as it comes, a pinned one with an image, and one with an override.
MCMdlTurns ==
    LET T(pinned, override, image, streaming) ==
            [pinned |-> pinned, override |-> override, image |-> image, streaming |-> streaming]
    IN  {T(NoName, NoName, FALSE, TRUE), T("m1", NoName, TRUE, FALSE),
         T(NoName, "m1", TRUE, TRUE)}
MCMdlReplies ==
    {[think |-> "a", say |-> "b", calls |-> <<>>],
     [think |-> NoName, say |-> "a", calls |-> <<"c1", "c2">>]}
MCMdlModels == <<"m1", "m2">>
MCMdlEffects ==
    LET E(pin, image, emits) == [pin |-> pin, image |-> image, emits |-> emits]
    IN  {E(NoName, TRUE, NoName), E("m2", FALSE, "chart"), E(NoName, FALSE, "chart")}

\* Two attempts with the same call id: of two tasks, of one task, on each host.
MCRtId == [c \in RtCall |-> "i1"]
MCRtSites ==
    LET At(task, host) == [task |-> task, host |-> host]
    IN  {<<At("t1", "client"), At("t2", "client")>>, <<At("t1", "checked"), At("t1", "checked")>>,
         <<At("t1", "checked"), At("t1", "catalog")>>}

\* The third message comes from another window of the same thread.
MCChWindowOf == [s \in ChSend |-> IF s = 3 THEN "w2" ELSE "w1"]
MCChThreadOf == [s \in ChSend |-> "t"]
MCChSorts ==
    {<<"own", "steer", "absent">>, <<"shared", "none", "absent">>,
     <<"absent", "steer bound", "own">>, <<"none", "absent", "denied">>,
     <<"absent", "steer", "own">>}

\* Two rounds of a turn, as one message each or streamed into one, with their
\* front or any message trimmed away.
PsPart(k, i) == [kind |-> k, id |-> i]
PsRounds ==
    <<<<PsPart("text", 0)>>, <<PsPart("text", 0), PsPart("call", 1)>>, <<PsPart("result", 1)>>,
      <<PsPart("text", 0)>>, <<PsPart("call", 2), PsPart("call", 3)>>, <<PsPart("result", 2)>>,
      <<PsPart("result", 3)>>>>
PsBubble ==
    <<<<PsPart("text", 0)>>,
      <<PsPart("call", 1), PsPart("result", 1), PsPart("text", 0), PsPart("call", 2), PsPart("result", 2)>>,
      <<PsPart("text", 0)>>>>
PsLeft(s) ==
    {SubSeq(s, k, n) : k \in 1..Len(s), n \in 1..Len(s)} \cup
    {SubSeq(s, 1, i - 1) \o SubSeq(s, i + 1, Len(s)) : i \in 1..Len(s)}
MCPsHistories == PsLeft(PsRounds) \cup PsLeft(PsBubble)

\* Thinking, text, two calls in fragments, a finish signal with content, usage.
MCPsChunks ==
    LET C(t, s, call, f, u) == [think |-> t, say |-> s, call |-> call, finish |-> f, usage |-> u]
        Frag(i, id, x) == [index |-> i, id |-> id, args |-> x]
    IN  {C("a", "b", NoId, FALSE, FALSE), C(NoText, "c", NoId, TRUE, FALSE), C(NoText, NoText, Frag(0, "i", "x"), FALSE, FALSE),
         C(NoText, NoText, Frag(1, NoId, "y"), FALSE, FALSE),
         C(NoText, NoText, Frag(0, NoId, "z"), TRUE, FALSE), C(NoText, NoText, NoId, FALSE, TRUE)}

\* A change with a creation behind it, and a deletion; one call is started
\* twice beside another one, or the audit is read.
MCRfPlans ==
    LET E(action, key, content) == [action |-> action, key |-> key, content |-> content]
    IN  {<<E("replace", "a", "new"), E("create", "b", "new")>>, <<E("delete", "a", "none")>>}
MCRfAtFirst == [k \in RfKey |-> IF k = "a" THEN 1 ELSE 0]
MCRfBudgets ==
    {[runs |-> <<2, 0>>, reads |-> FALSE], [runs |-> <<1, 1>>, reads |-> FALSE],
     [runs |-> <<1, 0>>, reads |-> TRUE]}
MCRfFilters == {{}, {"proposal"}, {"decision", "application"}}

\* A background child and a continuation of its thread, together only when a
\* result is not looked up in it; two children with a schema; a child with a
\* model of its own.
CsScope(view, write) == [view |-> view, write |-> write]
CsChild(turn, readOnly, background, schema, override) ==
    [turn |-> turn, readOnly |-> readOnly, background |-> background, schema |-> schema,
     override |-> override]
CsPlanOf(store, external, overlap, children) ==
    [store |-> store, external |-> external, overlap |-> overlap, children |-> children]
MCCsPlans ==
    LET full == CsScope("v1", TRUE)
    IN  {CsPlanOf("replace", x, ~x, <<CsChild(full, FALSE, TRUE, FALSE, FALSE),
                                      CsChild(s, FALSE, TRUE, FALSE, FALSE)>>) :
            x \in BOOLEAN, s \in {full, CsScope("v1", FALSE)}} \cup
        {CsPlanOf("append", x, FALSE, <<CsChild(full, TRUE, FALSE, TRUE, FALSE),
                                        CsChild(s, FALSE, FALSE, TRUE, FALSE)>>) :
            x \in BOOLEAN, s \in {full, Unbound}} \cup
        {CsPlanOf("replace", TRUE, FALSE, <<CsChild(Unbound, TRUE, TRUE, TRUE, TRUE),
                                            CsChild(Unbound, FALSE, FALSE, FALSE, FALSE)>>)}

\* Files are moved out, messages dropped, skills ranked or left to themselves.
PcRank(listed, mode, realize, suppressed) ==
    [listed |-> listed, mode |-> mode, realize |-> realize, suppressed |-> suppressed]
MCPcPlans ==
    LET Plan(compactor, window, maxMessages, rank, prereqs, tools) ==
            [compactor |-> compactor, window |-> window, maxMessages |-> maxMessages, rank |-> rank,
             prereqs |-> prereqs, tools |-> tools]
        unranked == PcRank(<<>>, "refine", <<>>, 0)
    IN  {Plan("evict", 5, 0, unranked, TRUE, {"todo"}),
         Plan("evict", 4, 2, unranked, TRUE, {"read", "spawn"}),
         Plan("classic", 4, 3, PcRank(<<"s2", "s2">>, "refine", <<"s2", "s1">>, 0), TRUE, {"skill"}),
         Plan("evict", 0, 2, PcRank(<<"s1">>, "replace", <<"s3", "s1">>, 1), FALSE, {"skill"})}
MCPcSkills == <<"s1", "s2">>
MCPcPrereqs == [s \in {"s1", "s2"} |-> IF s = "s2" THEN {"s1", "s3"} ELSE {"s2"}]
MCPcBody == [s \in {"s1", "s2"} |-> IF s = "s1" THEN 1 ELSE 2]

\* Files or a service, alone or shared, whose host stores user messages or not,
\* with deletions or with titles.
StPlanOf(layer, procs, names, precommit, ui, messages, uis, faults) ==
    [layer |-> layer, procs |-> procs, names |-> names, precommit |-> precommit, ui |-> ui,
     bound |-> [messages |-> messages, ui |-> uis, faults |-> faults]]
MCStPlans ==
    LET both == {"p1", "p2"}
    IN  {StPlanOf(FALSE, {"p1"}, {"b"}, FALSE, {"delete", "clear"}, 3, 2, 1),
         StPlanOf(TRUE, {"p1"}, {"", "w"}, TRUE, {"delete", "clear"}, 2, 1, 1),
         StPlanOf(TRUE, both, {"b"}, TRUE, {"delete"}, 2, 1, 0),
         StPlanOf(TRUE, both, {"w"}, TRUE, {}, 3, 0, 1),
         StPlanOf(FALSE, {"p1"}, {"b"}, FALSE, {"title"}, 1, 3, 1),
         StPlanOf(TRUE, {"p1"}, {"b"}, FALSE, {"title"}, 1, 3, 1),
         StPlanOf(TRUE, both, {"b"}, FALSE, {"title"}, 0, 2, 1)}

\* The user of the terminal: queueing and editing, cancelling and approving over
\* two threads, another workspace, removals, new threads, shell commands.
MCTuHome == [h \in TuThread |-> IF h = "b1" THEN "b" ELSE "a"]
MCTuPlans ==
    LET P(listed, ops, keys, faults, outside) ==
            [listed |-> listed, ops |-> ops \cup {"type", "enter"}, keys |-> keys,
             faults |-> faults, outside |-> outside]
    IN  {P({"a1"}, {"edit"}, 9, 0, FALSE), P({"a1", "a2"}, {"cancel", "select"}, 5, 1, FALSE),
         P({"a1"}, {"cancel"}, 7, 1, FALSE), P({"a1", "a2"}, {"approve", "select"}, 5, 0, FALSE),
         P({"a1", "b1"}, {"cd", "approve"}, 5, 1, FALSE), P({"a1", "b1"}, {"cd"}, 5, 1, TRUE),
         P({"a1"}, {"clear", "delete", "create"}, 4, 1, FALSE), P({"a1"}, {"clear"}, 6, 1, FALSE),
         P({"a1"}, {"edit", "select", "create"}, 5, 0, FALSE), P({"a1"}, {"shell", "edit"}, 8, 0, FALSE),
         P({"a1", "a2"}, {"select", "busy"}, 4, 0, FALSE)}

\* The editor: prompts at once and cancelled, ids asked again, files and terminals
\* of one and of two sessions, a notice of a child between the prompts.
MCEcPlans ==
    LET P(prompts, work, ids, caps, flags, errors) ==
            [prompts |-> prompts, work |-> work, ids |-> ids, caps |-> caps, errors |-> errors,
             overlap |-> "overlap" \in flags, cancel |-> "cancel" \in flags, close |-> "close" \in flags,
             notice |-> "notice" \in flags, fails |-> "fails" \in flags]
        both == {"fs", "terminal"}
    IN  {P(<<"s1", "s1">>, <<"approve">>, <<"i1", "i2">>, {}, {"overlap", "cancel"}, {}),
         P(<<"s1", "s1">>, <<"approve">>, <<"i1", "i1">>, {}, {"fails", "cancel"}, {}),
         P(<<"s1">>, <<"edit", "command">>, <<"i1">>, both, {"cancel", "close"}, {"read", "create", "wait"}),
         P(<<"s1", "s2">>, <<"command">>, <<"i1", "i2">>, {"terminal"}, {"overlap", "cancel"}, {}),
         P(<<"s1", "s1">>, <<"edit">>, <<"i1", "i2">>, {}, {"notice", "cancel"}, {}),
         P(<<"s1", "s2">>, <<"approve", "edit">>, <<"i1", "i1">>, {"fs"}, {"overlap"}, {})}

\* Agents claim and give back, in order, over changed dependencies; two stores in
\* one process and in two; the graph of a team.
MCTbPlans ==
    LET P(at, agents, does, ops, fails) ==
            [at |-> at, agents |-> agents, does |-> does, ops |-> ops, fails |-> fails]
        two == {"x", "y"}
        one == [r \in {"r1"} |-> "p1"]
        shared == [r \in {"r1", "r2"} |-> "p1"]
        apart == [r \in {"r1", "r2"} |-> IF r = "r1" THEN "p1" ELSE "p2"]
    IN  {P(one, two, {"create", "claim", "guarded", "set"}, 4, FALSE),
         P(one, {"x"}, {"create", "claim", "next", "set", "plan"}, 4, TRUE),
         P(one, {"x"}, {"create", "link", "claim"}, 4, FALSE),
         P(shared, two, {"create", "claim", "next"}, 4, FALSE),
         P(apart, two, {"create", "claim", "next"}, 3, FALSE),
         P(apart, two, {"register", "child"}, 4, TRUE),
         P(shared, {"x", "y", "z"}, {"register", "child", "status"}, 4, FALSE)}

\* Two turns that call tools or read resources, and one that stops the server.
MCMsPlans ==
    LET P(first, second, known, crashes, hangs, cancels) ==
            [ops |-> [t \in MsTurn |-> IF t = "t1" THEN first ELSE second], known |-> known,
             faults |-> [crashes |-> crashes, hangs |-> hangs, cancels |-> cancels]]
    IN  {P(<<"tools/call">>, <<"tools/call">>, TRUE, 1, 0, 0),
         P(<<"tools/call">>, <<"resources/read">>, TRUE, 0, 0, 1),
         P(<<"tools/call">>, <<"stop">>, FALSE, 0, 1, 1)}

\* A repository, another worktree of it, and two projects with the same name,
\* one of them a repository inside the other.
MCWvInside ==
    [r \in WvRoot |-> CASE r = "a" -> {"a"} [] r = "a2" -> {"a2"} [] r = "p" -> {"p", "p/n"}
                        [] r = "p/n" -> {"p/n"}]
MCWvRootOf == [d \in WvRoot |-> d]
MCWvRepo == [r \in WvRoot |-> CASE r \in {"a", "a2"} -> "A" [] r = "p/n" -> "N" [] r = "p" -> NoRepo]
MCWvBase == [r \in WvRoot |-> IF r \in {"p", "p/n"} THEN "p" ELSE r]
MCWvPlans ==
    LET B(kind, dir) == [kind |-> kind, dir |-> dir]
        Tool(scheduled, dirty, mutable, writes) ==
            [kind |-> "invoke", scheduled |-> scheduled, allowDirty |-> dirty,
             allowMutable |-> mutable, writes |-> writes]
        P(first, second, host, shared, publishes, saves, commits, restarts) ==
            [ops |-> [c \in WvCaller |-> IF c = 1 THEN first ELSE second],
             host |-> [c \in WvCaller |-> IF c = 1 THEN "h1" ELSE host], shared |-> shared,
             faults |-> [publishes |-> publishes, saves |-> saves, commits |-> commits,
                         restarts |-> restarts]]
    IN  {P(<<B("bind", "p/n"), B("bind", "p")>>, <<B("publisher", "a")>>, "h1", FALSE, 1, 0, 1, 0),
          P(<<B("bind", "p/n"), B("renew", "a")>>, <<B("publisher", "a"), B("bind", "p/n")>>,
           "h1", FALSE, 1, 0, 1, 0),
          P(<<B("resolve", "p"), B("resolve", "p/n")>>, <<B("resolve", "p"), B("resolve", "p/n")>>,
           "h1", FALSE, 0, 1, 0, 1),
         P(<<B("resolve", "p"), B("resolve", "p")>>, <<B("bind", "p/n"), B("resolve", "a2")>>,
           "h2", TRUE, 0, 1, 0, 1),
         P(<<B("bind", "p/n"), Tool(TRUE, TRUE, TRUE, TRUE), Tool(TRUE, FALSE, FALSE, FALSE)>>,
           <<B("bind", "p"), Tool(FALSE, FALSE, FALSE, TRUE)>>, "h1", FALSE, 0, 0, 2, 1)}

\* Three files, the last of which does not exist.
WfLine(text, pad) == [text |-> text, pad |-> pad]
MCWfPath == <<"f", "g", "h">>
MCWfAtFirst ==
    [p \in {"f", "g", "h"} |-> CASE p = "f" -> <<WfLine("a", 0), WfLine("b", 0), WfLine("a", 1)>>
                                 [] p = "g" -> <<WfLine("c", 0)>> [] p = "h" -> NoFileYet]
\* A write or an edit against a patch, two patches, a patch on its own with faults.
MCWfPlans ==
    LET L(text) == WfLine(text, 0)
        K(context, old, new) == [context |-> context, old |-> old, new |-> new, eof |-> FALSE]
        Last(old, new) == [context |-> <<>>, old |-> old, new |-> new, eof |-> TRUE]
        Update(p, chunks) == [kind |-> "update", path |-> p, chunks |-> chunks]
        Move(p, to) == [kind |-> "move", path |-> p, to |-> to]
        Create(p) == [kind |-> "create", path |-> p, content |-> <<L("n")>>]
        Delete(p) == [kind |-> "delete", path |-> p]
        Patch(ops) == [kind |-> "patch", ops |-> ops]
        Edit(p, old, new) == [kind |-> "edit", path |-> p, old |-> L(old), new |-> L(new)]
        Write(p) == [kind |-> "write", path |-> p, content |-> <<L("w")>>]
        P(first, second, faults, output) ==
            [jobs |-> [c \in WfCall |-> IF c = 1 THEN first ELSE second], faults |-> faults,
             output |-> output]
        Two == Patch(<<Update("f", <<K(<<L("a")>>, <<L("b")>>, <<L("x"), L("y")>>), Last(<<L("a")>>, <<>>)>>),
                       Update("g", <<K(<<>>, <<>>, <<L("z")>>)>>), Move("g", "h")>>)
    IN  {P(Two, Patch(<<Delete("f"), Update("g", <<K(<<>>, <<L("c")>>, <<L("d")>>)>>), Create("f")>>), 2, FALSE),
         P(Two, Edit("g", "c", "e"), 2, FALSE), P(Two, Write("h"), 2, FALSE),
         P(Two, Patch(<<Create("h"), Update("g", <<K(<<L("c")>>, <<>>, <<L("k")>>)>>), Delete("f")>>), 2, FALSE),
         P(Patch(<<Update("f", <<K(<<>>, <<L("b")>>, <<L("p")>>), K(<<>>, <<L("a")>>, <<L("q")>>)>>),
                   Create("h"), Delete("g")>>), Write("f"), 1, FALSE),
         P(Write("g"), Edit("f", "b", "e"), 0, TRUE),
         P(Patch(<<Delete("h")>>), Edit("f", "q", "e"), 0, TRUE)}

\* Deletes that meet the end of the process or a write that fails, a browser that
\* comes back again and again, a log that survives, and a delete under a stream.
MCWsPlans ==
    LET P(streams, deletes, troubles) ==
            [streams |-> streams, deletes |-> deletes, troubles |-> troubles]
    IN  {P(1, 1, {"crash", "fault"}), P(2, 0, {"disconnect"}), P(2, 0, {"crash", "fault"}), P(2, 1, {})}

\* The choices of a part that does not move are made for it.
Init ==
    /\ part \in Parts
    /\ MdlInit /\ (part # "model" => mdlTurn = CHOOSE t \in MdlTurn : TRUE)
    /\ RtInit /\ (part # "tools" => rtSite = CHOOSE s \in RtSites : TRUE)
    /\ ChInit /\ (part # "transport" => chSort = CHOOSE s \in ChSorts : TRUE)
    /\ PsInit
    /\ part # "provider" =>
          psFormat = "native" /\ ~psUsage /\ psHistory = CHOOSE h \in PsHistories : TRUE
    /\ RfInit
    /\ part # "refinement" => rfEditor = "file" /\ rfBudget = CHOOSE b \in RfBudgets : TRUE
    /\ CsInit /\ (part # "child" => csPlan = CHOOSE p \in CsPlans : TRUE)
    /\ PcInit /\ (part # "prompt" => pcPlan = CHOOSE p \in PcPlans : TRUE)
    /\ StInit /\ (part # "stores" => stPlan = CHOOSE p \in StPlans : TRUE)
    /\ TuInit
    /\ part # "terminal" =>
          tuPlan = (CHOOSE p \in TuPlans : TRUE) /\ tuClient.shown = CHOOSE h \in tuPlan.listed : TRUE
    /\ EcInit /\ (part # "editor" => ecPlan = CHOOSE p \in EcPlans : TRUE)
    /\ TbInit /\ (part # "board" => tbPlan = CHOOSE p \in TbPlans : TRUE)
    /\ MsInit /\ (part # "mcp" => msPlan = CHOOSE p \in MsPlans : TRUE)
    /\ WvInit /\ (part # "views" => wvPlan = CHOOSE p \in WvPlans : TRUE)
    /\ WfInit /\ (part # "files" => wfPlan = CHOOSE p \in WfPlans : TRUE)
    /\ WsInit /\ (part # "web" => wsPlan = CHOOSE p \in WsPlans : TRUE)

Next ==
    \/ part = "model" /\ MdlNext
       /\ UNCHANGED <<part, rtVars, chVars, psVars, rfVars, csVars, pcVars, stVars, tuVars, ecVars, tbVars, msVars, wvVars, wfVars, wsVars>>
    \/ part = "tools" /\ RtNext
       /\ UNCHANGED <<part, mdlVars, chVars, psVars, rfVars, csVars, pcVars, stVars, tuVars, ecVars, tbVars, msVars, wvVars, wfVars, wsVars>>
    \/ part = "transport" /\ ChNext
       /\ UNCHANGED <<part, mdlVars, rtVars, psVars, rfVars, csVars, pcVars, stVars, tuVars, ecVars, tbVars, msVars, wvVars, wfVars, wsVars>>
    \/ part = "provider" /\ PsNext
       /\ UNCHANGED <<part, mdlVars, rtVars, chVars, rfVars, csVars, pcVars, stVars, tuVars, ecVars, tbVars, msVars, wvVars, wfVars, wsVars>>
    \/ part = "refinement" /\ RfNext
       /\ UNCHANGED <<part, mdlVars, rtVars, chVars, psVars, csVars, pcVars, stVars, tuVars, ecVars, tbVars, msVars, wvVars, wfVars, wsVars>>
    \/ part = "child" /\ CsNext
       /\ UNCHANGED <<part, mdlVars, rtVars, chVars, psVars, rfVars, pcVars, stVars, tuVars, ecVars, tbVars, msVars, wvVars, wfVars, wsVars>>
    \/ part = "prompt" /\ PcNext
       /\ UNCHANGED <<part, mdlVars, rtVars, chVars, psVars, rfVars, csVars, stVars, tuVars, ecVars, tbVars, msVars, wvVars, wfVars, wsVars>>
    \/ part = "stores" /\ StNext
       /\ UNCHANGED <<part, mdlVars, rtVars, chVars, psVars, rfVars, csVars, pcVars, tuVars, ecVars, tbVars, msVars, wvVars, wfVars, wsVars>>
    \/ part = "terminal" /\ TuNext
       /\ UNCHANGED <<part, mdlVars, rtVars, chVars, psVars, rfVars, csVars, pcVars, stVars, ecVars, tbVars, msVars, wvVars, wfVars, wsVars>>
    \/ part = "editor" /\ EcNext
       /\ UNCHANGED <<part, mdlVars, rtVars, chVars, psVars, rfVars, csVars, pcVars, stVars, tuVars, tbVars, msVars, wvVars, wfVars, wsVars>>
    \/ part = "board" /\ TbNext
       /\ UNCHANGED <<part, mdlVars, rtVars, chVars, psVars, rfVars, csVars, pcVars, stVars, tuVars, ecVars, msVars, wvVars, wfVars, wsVars>>
    \/ part = "mcp" /\ MsNext
       /\ UNCHANGED <<part, mdlVars, rtVars, chVars, psVars, rfVars, csVars, pcVars, stVars, tuVars, ecVars, tbVars, wvVars, wfVars, wsVars>>
    \/ part = "views" /\ WvNext
       /\ UNCHANGED <<part, mdlVars, rtVars, chVars, psVars, rfVars, csVars, pcVars, stVars, tuVars, ecVars, tbVars, msVars, wfVars, wsVars>>
    \/ part = "files" /\ WfNext
       /\ UNCHANGED <<part, mdlVars, rtVars, chVars, psVars, rfVars, csVars, pcVars, stVars, tuVars, ecVars, tbVars, msVars, wvVars, wsVars>>
    \/ part = "web" /\ WsNext
       /\ UNCHANGED <<part, mdlVars, rtVars, chVars, psVars, rfVars, csVars, pcVars, stVars, tuVars, ecVars, tbVars, msVars, wvVars, wfVars>>

Spec == Init /\ [][Next]_hostVars

-----------------------------------------------------------------------------
\* A part that does not move stays in its initial state: what is said of a part
\* is asked in the states of its own runs.
HostTypeOK ==
    CASE part = "model" -> MdlTypeOK
      [] part = "tools" -> RtTypeOK
      [] part = "transport" -> ChTypeOK
      [] part = "provider" -> PsTypeOK
      [] part = "refinement" -> RfTypeOK
      [] part = "child" -> CsTypeOK
      [] part = "prompt" -> PcTypeOK
      [] part = "stores" -> StTypeOK
      [] part = "terminal" -> TuTypeOK
      [] part = "editor" -> EcTypeOK
      [] part = "board" -> TbTypeOK
      [] part = "mcp" -> MsTypeOK
      [] part = "views" -> WvTypeOK
      [] part = "files" -> WfTypeOK
      [] part = "web" -> WsTypeOK

\* A turn publishes what its model has said and asks it no more than it may;
\* what is sent to the provider and what is read from it belong together.
ModelSound == (part = "model" => MdlOutputWhole /\ MdlCallsSound) /\ (part = "provider" => PsRequestSound)

\* Remote tool calls and the requests to a tool server take their own answers
\* only.
RemoteSound == (part = "tools" => RtCallsSound) /\ (part = "mcp" => McpSound)

\* Turns and answers find the window they belong to, tools the workspace they are
\* bound to.
TransportSound ==
    (part = "transport" => ChTransportSound) /\ (part = "views" => ViewsSound)

\* Refinements are applied once, as decided, and can be rolled back.
RefinementSound == part = "refinement" => RfSound

\* A child's thread keeps and gives what the child has answered.
ChildSound == part = "child" => CsSound

\* The provider is given the newest of the thread and of the work.
PromptSound == part = "prompt" => PcSound

\* A thread keeps what was saved, once, and the title its user gave it; a board
\* of tasks keeps its claims and its order; a patch changes its files as one.
StoresSound == (part = "stores" => StSound) /\ (part = "board" => TbSound)
               /\ (part = "files" => FilesSound)

\* The terminal client sends, cancels and shows what belongs to its threads; an
\* editor's prompts, permissions, files and terminals are answered and let go; a browser's
\* stream continues its snapshot, however often it ends.
ClientsSound ==
    (part = "terminal" => TuSound) /\ (part = "editor" => EcSound) /\ (part = "web" => WsSound)
===============================================================================
