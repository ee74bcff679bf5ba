----------------------------- MODULE MCDispatch ------------------------------
\* Requests and chains for TLC: each middleware in and out of a Timeout, every
\* handler, and every way a request is routed.
EXTENDS Dispatch

Paths == {"/a", "/b", "/old", "/old/x", "/icon", "/files/f", "/f", "/files/g", "/g"}

MCRedirectRules == [exact |-> [p \in {"/old"} |-> "/a"],
                    wild |-> {[p \in {"/old", "/old/x"} |-> "/b"]}]
MCRewriteRules == [exact |-> [p \in {"/a"} |-> "/b"],
                   wild |-> {[p \in {"/old", "/old/x"} |-> "/a"], [p \in {"/old/x"} |-> "/icon"]}]
MCStrip == [p \in {"/files/f", "/files/g"} |-> IF p = "/files/f" THEN "/f" ELSE "/g"]

Plain == [method |-> "GET", route |-> "found", path |-> "/a", handler |-> "string",
          origin |-> "none", early |-> FALSE, cookie |-> "none", token |-> "none",
          match |-> <<>>, gzip |-> FALSE]

ByHandler == {[Plain EXCEPT !.handler = h, !.match = m, !.gzip = g] :
                h \in Handlers, m \in {<<>>, <<"*">>, <<"text">>}, g \in BOOLEAN}
ByRoute == {[Plain EXCEPT !.route = r, !.method = m, !.origin = o] :
              r \in {"found", "slash", "other", "none"}, m \in {"GET", "POST", "OPTIONS"},
              o \in {"none", "app", "evil"}}
ByToken == {[Plain EXCEPT !.method = "POST", !.cookie = c, !.token = t, !.early = e] :
              c \in {"none", "good", "forged"}, t \in {"none", "same", "other"}, e \in BOOLEAN}
ByPath == {[Plain EXCEPT !.path = p, !.handler = h] : p \in Paths, h \in {"string", "write"}}

MCRequest == ByHandler \cup ByRoute \cup ByToken \cup ByPath

\* A request for a streaming handler, with nothing above it.
StreamRequest == {[Plain EXCEPT !.handler = "stream"]}

Inline(g, i) == [global |-> g, inline |-> i]

MCChain ==
  {Inline(<<>>, <<>>),
   Inline(<<"recover", "requestid", "cors", "helmet">>, <<"timeout", "etag", "compress">>),
   Inline(<<"timeout", "requestid", "cors">>, <<"recover", "responsetime", "requestid">>),
   Inline(<<"responsetime", "compress", "etag", "recover", "cors">>, <<"timeout", "helmet", "timeout">>),
   Inline(<<"requestid", "wrapped", "earlydata", "csrf">>, <<"skipped", "timeout">>),
   Inline(<<"recover", "rewrite", "favicon", "redirect">>, <<"static", "requestid">>),
   Inline(<<"timeout", "redirect", "static">>, <<"csrf", "favicon", "rewrite">>),
   Inline(<<"requestid", "recover">>, <<"wrapreads">>)}

StreamChain == {Inline(<<>>, <<>>)}
=============================================================================
