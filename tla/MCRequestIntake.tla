-------------------------- MODULE MCRequestIntake --------------------------
(***************************************************************************)
(* RequestIntake for TLC: a profiles directory that changes one of the two *)
(* built-in profiles and at first adds a third, two models, conversations  *)
(* put together from turns that reach every limit, and requests that their *)
(* protocol refuses.                                                       *)
(***************************************************************************)
EXTENDS RequestIntake

All == {"chat", "anthropic", "responses"}

MCProfiles ==
    [builtin |-> [model |-> "roles", media |-> "passthrough", project |-> FALSE,
                  sanitize |-> FALSE, harnessUser |-> FALSE, fence |-> TRUE,
                  protocols |-> All],
     codearts |-> [model |-> "roles", media |-> "placeholder", project |-> FALSE,
                   sanitize |-> FALSE, harnessUser |-> FALSE, fence |-> FALSE,
                   protocols |-> All],
     workbuddy |-> [model |-> "roles", media |-> "passthrough", project |-> FALSE,
                    sanitize |-> TRUE, harnessUser |-> FALSE, fence |-> FALSE,
                    protocols |-> All],
     slim |-> [model |-> "text-only", media |-> "placeholder", project |-> TRUE,
               sanitize |-> TRUE, harnessUser |-> TRUE, fence |-> TRUE,
               protocols |-> {"chat", "responses"}]]

MCFamilies == DOMAIN MCProfiles
MCRegistrations == {MCFamilies \ {"builtin"}, {"codearts", "workbuddy"}}
MCDefaultRoutes == [m1 |-> "codearts"]
MCDocs == {[routes |-> [m1 |-> f], blocked |-> B] : f \in {"workbuddy", "slim"},
                                                    B \in {{}, {"m2"}, {"m1", "m2"}}}
MCEnvironments == {[chain |-> "", media |-> ""],
                   [chain |-> "project", media |-> "placeholder"],
                   [chain |-> "none", media |-> "passthrough"]}

Turn(who, text) == [who |-> who, text |-> text, calls |-> <<>>, images |-> <<>>,
                    thought |-> FALSE]
Pics(t, images) == [t EXCEPT !.images = images]

Openings == {<<>>, <<Turn("system", <<"rule", "trigger">>)>>}
Questions == {Turn("user", <<"hi">>), Turn("user", <<"long", "hi">>),
              Turn("user", <<"harness">>),
              Pics(Turn("user", <<>>), <<"data", "huge", "dead", "url">>)}
Answer == [Turn("assistant", <<"yes">>) EXCEPT !.thought = TRUE]

\* The assistant calls tools and is given their results.
Round(text, ids, images) ==
    << [Turn("assistant", text) EXCEPT !.calls = ids],
       [Pics(Turn("results", <<"done">>), images) EXCEPT !.calls = ids] >>

Middles == {<<>>, Round(<<>>, <<"c1">>, <<>>),
            Round(<<"so">>, <<"c1", "c2">>, <<"odd", "data">>),
            Round(<<>>, <<"c1">>, <<>>) \o Round(<<>>, <<"c1">>, <<>>) \o <<Answer>>}
Ends == {<<>>,
         <<Turn("user", <<"and">>)>> \o Round(<<>>, <<"c3">>, <<>>),
         \* the user speaks before the results of the calls are in
         << Turn("user", <<"and">>), [Turn("assistant", <<>>) EXCEPT !.calls = <<"c4">>],
            Turn("user", <<"wait">>),
            [Turn("results", <<"late">>) EXCEPT !.calls = <<"c4">>] >>,
         \* instructions in the middle of a conversation
         <<Turn("developer", <<"rule">>), Turn("user", <<"then">>)>>}

Conversations ==
    {o \o <<q>> \o m \o e : o \in Openings, q \in Questions, m \in Middles, e \in Ends}

Request(proto, conv, explicit, tool) ==
    [proto |-> proto, conv |-> conv, model |-> "m1", explicit |-> explicit,
     params |-> [max_tokens |-> "set"], tool |-> tool, known |-> FALSE]

Hello == Request("chat", <<Turn("user", <<"hi">>)>>, "", "none")

\* A system turn after the question, and results whose call has no name.
Later(text) == Hello.conv \o <<Turn("system", text)>>
Nameless == Hello.conv \o Round(<<>>, <<NoCall>>, <<>>)

MCQuick == {Hello, [Hello EXCEPT !.model = "m2"],
            [Hello EXCEPT !.explicit = "workbuddy",
                          !.conv = <<Turn("system", <<"codex">>)>> \o Hello.conv],
            [Hello EXCEPT !.explicit = "elsewhere"],
            [Hello EXCEPT !.params = [seed |-> "set", logit_bias |-> "set"]],
            [Hello EXCEPT !.params = [seed |-> "default"], !.known = TRUE,
                          !.explicit = "slim"],
            [Hello EXCEPT !.proto = "anthropic", !.explicit = "slim"],
            [Hello EXCEPT !.conv = <<Turn("system", <<"rule">>), Answer>>],
            [Hello EXCEPT !.conv = Later(<<"rule">>)],
            [Hello EXCEPT !.proto = "anthropic", !.conv = Later(<<"rule">>)],
            \* in blocks the same turn becomes the assistant's
            [Hello EXCEPT !.proto = "anthropic",
                          !.conv = Hello.conv \o
                                   <<[Turn("system", <<"rule">>) EXCEPT !.thought = TRUE]>>],
            [Hello EXCEPT !.proto = "anthropic", !.params = [temperature |-> "set"]],
            [Hello EXCEPT !.proto = "responses", !.conv = Later(<<"rule">>)],
            [Hello EXCEPT !.proto = "responses", !.conv = Nameless]}

MCRequests ==
    MCQuick \cup
    {r \in {Request(p, conv, x, tool) : p \in All, conv \in Conversations,
                                        x \in {"workbuddy", "slim"}, tool \in {"agentic", "plain"}} :
        Carries(r.proto, r.conv)}
=============================================================================
