----------------------------- MODULE MCAIRouter -----------------------------
(***************************************************************************)
(* A catalog with two cloud providers, one of them approved for private    *)
(* data, and a local provider approved for everything; two equivalent fast *)
(* models, an advanced one, an evaluation candidate that routing must not  *)
(* use, a realtime and a local model.  Prices are per Unit of 4 tokens, so *)
(* that the ceiling of an estimate rounds.                                 *)
(***************************************************************************)
EXTENDS AIRouter

MCProvider(local, max, private, sensitive, critical) ==
  [enabled |-> TRUE, local |-> local, max |-> max, private |-> private,
   sensitive |-> sensitive, critical |-> critical]
MCProviders ==
  [p \in {"cloud", "open", "home"} |->
     CASE p = "cloud" -> MCProvider(FALSE, "PRIVATE", TRUE, FALSE, FALSE)
       [] p = "open" -> MCProvider(FALSE, "INTERNAL", FALSE, FALSE, FALSE)
       [] p = "home" -> MCProvider(TRUE, "CRITICAL", TRUE, TRUE, TRUE)]

Text == {"TEXT_GENERATION", "STRUCTURED_OUTPUT"}
MCModel(id, provider, class, quality, max, context, price) ==
  [id |-> id, provider |-> provider, class |-> class, quality |-> quality,
   max |-> max, capabilities |-> IF class = "REALTIME" THEN Text \cup {"AUDIO_REALTIME"} ELSE Text,
   context |-> context, output |-> 3, in_price |-> price, out_price |-> 2 * price,
   priority |-> 10, enabled |-> TRUE, deprecated |-> FALSE,
   routing |-> TRUE, evaluation |-> FALSE]
MCModels ==
  { MCModel(1, "cloud", "FAST", 1, "PRIVATE", 6, 3),
    MCModel(2, "open", "FAST", 1, "PUBLIC", 4, 1),
    MCModel(3, "cloud", "ADVANCED", 3, "PRIVATE", 6, 9),
    MCModel(4, "cloud", "STANDARD", 2, "PRIVATE", 6, 2),
    [MCModel(5, "cloud", "FAST", 1, "PRIVATE", 6, 1)
       EXCEPT !.routing = FALSE, !.evaluation = TRUE],
    MCModel(6, "cloud", "REALTIME", 4, "INTERNAL", 6, 3),
    MCModel(7, "home", "LOCAL", 2, "CRITICAL", 6, 1) }

\* Requests for text, speech and local models; the adapter is asked for what
\* was routed, or for one token more than that.
MCCalls ==
  { [complexity |-> complexity, sensitivity |-> labels[1], contexts |-> labels[2],
     capabilities |-> {}, structured |-> kind # "embedding", tools |-> tools /\ kind # "embedding",
     realtime |-> kind = "realtime", embedding |-> kind = "embedding",
     local_only |-> kind = "local", input |-> size[1], requested_output |-> size[2],
     output_budget |-> size[2] + extra, provider_structured |-> FALSE, provider_tools |-> FALSE] :
      complexity \in {"LOW", "MEDIUM", "HIGH"},
      labels \in {<<"PUBLIC", {}>>, <<"INTERNAL", {"PRIVATE"}>>, <<"PRIVATE", {"CRITICAL"}>>},
      tools \in BOOLEAN,
      kind \in {"text", "realtime", "embedding", "local"},
      size \in {<<1, 2>>, <<3, 2>>, <<5, 2>>, <<1, 4>>},
      extra \in {0, 1} }

MCHealths == [DOMAIN MCProviders -> {"AVAILABLE", "DEGRADED", "UNAVAILABLE"}]
MCSpendings == {[request |-> 0, day |-> spent] : spent \in {0, 8}}
MCBudget == [scope \in {"request", "day"} |->
               IF scope = "day" THEN [soft |-> 8, hard |-> 15]
                                ELSE [soft |-> None, hard |-> 12]]
=============================================================================
