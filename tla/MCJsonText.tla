----------------------------- MODULE MCJsonText -----------------------------
(* Texts that are json up to MaxTokens tokens, the same with a token       *)
(* missing or another in its place, and every short sequence of tokens.    *)
EXTENDS Naturals, Sequences

CONSTANT MaxTokens

Tokens == {"{", "}", "[", "]", ":", ",", "str", "num", "lit"}

Leaves == {<<"str">>, <<"num">>, <<"lit">>}
Fit(S) == {t \in S : Len(t) <= MaxTokens}

(* The values, pairs and elements of up to a given depth.                  *)
Wrap(open, S, close) == {<<open, close>>} \union {<<open>> \o s \o <<close>> : s \in S}
Lists(S) ==
  Fit(S \union {s \o <<",">> \o t : s \in S, t \in {u \in S : Len(u) <= 5}})
Containers(S) ==
  Fit(Wrap("[", Lists(S), "]")
      \union Wrap("{", Lists({<<"str", ":">> \o v : v \in S}), "}"))
Three  == {<<"[">> \o s \o <<",">> \o t \o <<",">> \o u \o <<"]">> :
             s \in Leaves, t \in Leaves, u \in Leaves}
Flat   == Containers(Leaves) \union Three
Nested == Containers(Flat \union {<<"num">>})
Deep   == Containers(Nested \union {<<"str">>})

Broken(t) ==
  {SubSeq(t, 1, k - 1) \o SubSeq(t, k + 1, Len(t)) : k \in DOMAIN t}
  \union {[t EXCEPT ![k] = x] : k \in DOMAIN t, x \in {",", "}", "str"}}

JsonTexts == Flat \union Nested \union Deep
MCTexts ==
  JsonTexts \union UNION {Broken(t) : t \in {u \in JsonTexts : Len(u) <= 7}}
       \union UNION {[1..n -> Tokens] : n \in 0..3}
=============================================================================
