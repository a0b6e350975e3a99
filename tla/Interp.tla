-------------------------------- MODULE Interp --------------------------------
(***************************************************************************)
(* selur-compose-interp: ${...} expansion of texts and the environment they *)
(* are resolved against.  A text is a sequence of one-character strings, a  *)
(* file of KEY=VALUE lines a sequence of texts, an environment a function   *)
(* from names to values.  What can fail answers Ok(v) or Err(why); the      *)
(* wording and the position of an error are left out.                       *)
(***************************************************************************)
EXTENDS Integers, Sequences, FiniteSets, SequencesExt

CONSTANT NameChars      \* the letters and digits that occur

Marks == {"$", "{", "}", ":", "-", "?", "=", "#", "'", "\"", " ", ".", "/", "_"}
\* words the code writes or compares with, one symbol each
Words == {"project", "default", "latest", "tcp", "ro"}
ASSUME NameCharsAssumption == NameChars \cap (Marks \cup Words) = {}

Text == Seq(NameChars \cup Marks \cup Words)
Put(f, k, v) == [x \in DOMAIN f \cup {k} |-> IF x = k THEN v ELSE f[x]]   \* a map's insert
Option(S) == {o \in Seq(S) : Len(o) <= 1}       \* Rust's Option<T>

Ok(v) == [ok |-> TRUE, val |-> v]
Err(why) == [ok |-> FALSE, val |-> why]
\* F(v), with v evaluated once; and what ? makes of a result
With(v, F(_)) == CHOOSE y \in {F(x) : x \in {v}} : TRUE
AndThen(result, Step(_)) == With(result, LAMBDA r : IF r.ok THEN Step(r.val) ELSE r)
Tail2(t, k) == SubSeq(t, k, Len(t))              \* &t[k..]

ForEach(F(_), seq) == [i \in DOMAIN seq |-> F(seq[i])]
\* The numbers in S from the least on, and the elements of seq at the places I.
InOrder(S) ==
    [i \in 1..Cardinality(S) |-> CHOOSE x \in S : Cardinality({y \in S : y < x}) = i - 1]
AtPlaces(seq, I) == ForEach(LAMBDA i : seq[i], InOrder(I))

\* Results in sequence: the first error, or all the values.
Collect(results) ==
    With(results, LAMBDA rs :
        IF \A i \in DOMAIN rs : rs[i].ok THEN Ok([i \in DOMAIN rs |-> rs[i].val])
        ELSE rs[SelectInSeq(rs, LAMBDA r : ~r.ok)])
-----------------------------------------------------------------------------
(* The lexer.  A token is literal text or a variable with what to do when   *)
(* it is not there; the escape $$ is the token Escape.                      *)
IsNameCharLoose(b) == b \in NameChars \cup {"_", "-"}     \* mutant: a name may hold a dash
IsNameChar(b) == b \in NameChars \cup {"_"}

Token(kind, name, colon, text) ==
    [kind |-> kind, name |-> name, colon |-> colon, text |-> text]
Literal(text) == Token("literal", <<>>, FALSE, text)
Escape == Literal(<<"$">>)

Modifiers == {[mark |-> <<":", "-">>, kind |-> "default", colon |-> TRUE],
              [mark |-> <<"-">>, kind |-> "default", colon |-> FALSE],
              [mark |-> <<":", "?">>, kind |-> "required", colon |-> TRUE],
              [mark |-> <<"?">>, kind |-> "required", colon |-> FALSE]}

\* What stands between ${ and }: a name, or a name and a modifier.
Modified(name, rest, m) == Token(m.kind, name, m.colon, Tail2(rest, Len(m.mark) + 1))
AsToken(name, rest) ==
    CASE name = <<>> -> Err("NotAName")
      [] name # <<>> /\ rest = <<>> -> Ok(Token("plain", name, FALSE, <<>>))
      [] name # <<>> /\ \E m \in Modifiers : IsPrefix(m.mark, rest) ->
            Ok(Modified(name, rest, CHOOSE m \in Modifiers : IsPrefix(m.mark, rest)))
      [] OTHER -> Err("UnknownModifier")
ParseExpansion(inner) ==
    With(SelectInSeq(Append(inner, "}"), LAMBDA b : ~IsNameChar(b)), LAMBDA stop :
        AsToken(SubSeq(inner, 1, stop - 1), Tail2(inner, stop)))

\* A literal that begins at i goes on to the next $$ or ${, or to the end; a dollar
\* before anything else belongs to it.
LiteralEnd(input, i) ==
    Min({j \in i..(Len(input) - 1) : input[j] = "$" /\ input[j + 1] \in {"$", "{"}}
        \cup {Len(input) + 1})
Flush(input, from, to) == IF from < to THEN <<Literal(SubSeq(input, from, to - 1))>> ELSE <<>>

\* The escape or the variable at j, and the position after it.
TokenAt(input, j) ==
    IF input[j + 1] = "$" THEN Ok([token |-> Escape, next |-> j + 2])
    ELSE With(SelectInSubSeq(input, j + 2, Len(input), LAMBDA b : b = "}"), LAMBDA close :
             IF close = 0 THEN Err("Unterminated")
             ELSE AndThen(ParseExpansion(SubSeq(input, j + 2, close - 1)), LAMBDA token :
                      Ok([token |-> token, next |-> close + 1])))

\* The tokens from a dollar that is no literal on, and from any position on that
\* no token lies across.
TokensAt(input, j, scan) ==
    IF j > Len(input) THEN Ok(<<>>)
    ELSE AndThen(TokenAt(input, j), LAMBDA t :
         AndThen(scan[t.next], LAMBDA ts : Ok(<<t.token>> \o ts)))
TokensFrom(input, i, scan) ==
    LET end == LiteralEnd(input, i)
    IN  AndThen(TokensAt(input, end, scan), LAMBDA ts : Ok(Flush(input, i, end) \o ts))
Lex(input) ==
    LET scan[i \in 1..(Len(input) + 1)] == TokensFrom(input, i, scan)
    IN  scan[1]
-----------------------------------------------------------------------------
(* The expander.                                                            *)
Piece(token, env) ==
    LET there == /\ token.name \in DOMAIN env
                 /\ token.colon => env[token.name] # <<>>
    IN  CASE token.kind = "literal" -> Ok(token.text)
          [] token.kind # "literal" /\ there -> Ok(env[token.name])
          [] token.kind = "default" /\ ~there -> Ok(token.text)
          [] token.kind = "required" /\ ~there -> Err("MissingRequired")
          [] token.kind = "plain" /\ ~there -> Err("Undefined")

Expand(input, env) ==
    AndThen(Lex(input), LAMBDA ts :
    AndThen(Collect([i \in DOMAIN ts |-> Piece(ts[i], env)]), LAMBDA texts :
        Ok(FlattenSeq(texts))))
-----------------------------------------------------------------------------
(* Environments.  EnvMap keeps its pairs in order of decreasing priority and *)
(* looks up the first one of a key, so it is the function of first ones.     *)
FirstWins(pairs) ==
    [k \in {pairs[i][1] : i \in DOMAIN pairs} |->
        pairs[SelectInSeq(pairs, LAMBDA q : q[1] = k)][2]]

Get(env, name) == IF name \in DOMAIN env THEN <<env[name]>> ELSE <<>>

\* The entries of over hide those of under.
Layer(over, under) ==
    [k \in DOMAIN over \cup DOMAIN under |-> IF k \in DOMAIN over THEN over[k] ELSE under[k]]
WithOverrides(env, overrides) == Layer(FirstWins(overrides), env)

TrimEnd(t) == SubSeq(t, 1, SelectLastInSeq(t, LAMBDA b : b # " "))
Trim(t) == With(SelectInSeq(t, LAMBDA b : b # " "), LAMBDA first :
               IF first = 0 THEN <<>> ELSE TrimEnd(Tail2(t, first)))

Unquoted(s) == TrimEnd(s)                                 \* mutant: quotes are kept
StripQuotes(s) ==
    With(TrimEnd(s), LAMBDA t :
        IF Len(t) >= 2 /\ t[1] = t[Len(t)] /\ t[1] \in {"'", "\""}
        THEN SubSeq(t, 2, Len(t) - 1) ELSE t)

\* The pairs of a file, or an error when a line has an empty key.
KeyValue(line, eq) ==
    With(Trim(SubSeq(line, 1, eq - 1)), LAMBDA key :
        IF key = <<>> THEN Err("EnvFile") ELSE Ok(<<key, StripQuotes(Tail2(line, eq + 1))>>))
Assigns(t) == t # <<>> /\ t[1] # "#" /\ Contains(t, "=")
ParseEnvStr(lines) ==
    With([i \in DOMAIN lines |-> Trim(lines[i])], LAMBDA trimmed :
    With(AtPlaces(trimmed, {i \in DOMAIN trimmed : Assigns(trimmed[i])}), LAMBDA kept :
        Collect([i \in DOMAIN kept |->
                    KeyValue(kept[i], SelectInSeq(kept[i], LAMBDA b : b = "="))])))

\* A file is an option: <<>> cannot be opened.
LoadEnvFile(file) == IF file = <<>> THEN Err("EnvFile") ELSE ParseEnvStr(file[1])

WithEnvFiles(env, files) ==
    AndThen(Collect([i \in DOMAIN files |-> LoadEnvFile(files[i])]),
            LAMBDA loaded : Ok(Layer(env, FirstWins(FlattenSeq(loaded)))))

\* load.rs: the process, then .env beside the compose file, then --env-file.
BuildEnv(process, dotEnv, extra) ==
    LET base == IF dotEnv = <<>> THEN Ok(process) ELSE WithEnvFiles(process, <<dotEnv>>)
    IN  AndThen(base, LAMBDA env : IF extra = <<>> THEN Ok(env) ELSE WithEnvFiles(env, extra))
=============================================================================
