---------------------------- MODULE OAuthCallback ----------------------------
(***************************************************************************)
(* The request a browser makes to the callback of an authorization and     *)
(* what oauth.rs reads of it.  A value is a sequence of characters; the    *)
(* provider writes it into the query (Encoded).                            *)
(***************************************************************************)
EXTENDS Naturals, Sequences, FiniteSets, SequencesExt

Space == " "

\* The characters that have a code here, and the codes.
Coded == [s \in {"+", "%", "&", "=", Space} |->
            CASE s = "+" -> <<"2", "B">> [] s = "%" -> <<"2", "5">> [] s = "&" -> <<"2", "6">>
              [] s = "=" -> <<"3", "D">> [] s = Space -> <<"2", "0">>]

\* The provider's form encoding: a space may be a "+".
EncodedChar(c, plus) ==
    CASE c = Space /\ plus -> <<"+">>
      [] c \in DOMAIN Coded /\ ~(c = Space /\ plus) -> <<"%">> \o Coded[c]
      [] OTHER -> <<c>>

Encoded(v, plus) ==
    LET out[i \in 0 .. Len(v)] == IF i = 0 THEN <<>> ELSE out[i - 1] \o EncodedChar(v[i], plus)
    IN  out[Len(v)]

IsCode(h, l) == <<h, l>> \in {Coded[s] : s \in DOMAIN Coded}
CharOf(h, l) == CHOOSE s \in DOMAIN Coded : Coded[s] = <<h, l>>

\* One character of the value at i, and where the next one starts.
DecodedAt(v, i) ==
    CASE v[i] = "+" -> [char |-> Space, next |-> i + 1]
      [] v[i] = "%" /\ i + 2 <= Len(v) ->
           IF IsCode(v[i + 1], v[i + 2]) THEN [char |-> CharOf(v[i + 1], v[i + 2]), next |-> i + 3]
           ELSE [char |-> "%", next |-> i + 1]
      [] OTHER -> [char |-> v[i], next |-> i + 1]

DecodeStep(v, acc, i) ==
    IF i < acc.next THEN acc
    ELSE [out |-> Append(acc.out, DecodedAt(v, i).char), next |-> DecodedAt(v, i).next]

PercentDecode(v) ==
    LET read[i \in 0 .. Len(v)] ==
          IF i = 0 THEN [out |-> <<>>, next |-> 1] ELSE DecodeStep(v, read[i - 1], i)
    IN  read[Len(v)].out

\* What is between the "&" of a query: after the first of two places, before the second.
Cuts(query)  == {0, Len(query) + 1} \cup {i \in DOMAIN query : query[i] = "&"}
Pairs(query) == {p \in Cuts(query) \X Cuts(query) : p[1] < p[2] /\ \A c \in Cuts(query) : c <= p[1] \/ c >= p[2]}
PairAt(query, p) == SubSeq(query, p[1] + 1, p[2] - 1)

KeyOf(pair)   == LET at == SelectInSeq(pair, LAMBDA c : c = "=")
                 IN  IF at = 0 THEN pair ELSE SubSeq(pair, 1, at - 1)
ValueOf(pair) == LET at == SelectInSeq(pair, LAMBDA c : c = "=")
                 IN  IF at = 0 THEN <<>> ELSE SubSeq(pair, at + 1, Len(pair))

\* The last value of the key, in a sequence of one; <<>> when the query has none.
LastOf(query, key) ==
    LET having == {p \in Pairs(query) : KeyOf(PairAt(query, p)) = key}
        last   == CHOOSE p \in having : \A q \in having : q[1] <= p[1]
    IN  IF having = {} THEN <<>> ELSE <<PercentDecode(ValueOf(PairAt(query, last)))>>

\* parse_callback_request; the keys are characters of their own.
ParseCallback(query) ==
    LET code  == LastOf(query, <<"code">>)
        state == LastOf(query, <<"state">>)
    IN  CASE LastOf(query, <<"error">>) # <<>> -> [result |-> "error", error |-> LastOf(query, <<"error">>)[1]]
          [] LastOf(query, <<"error">>) = <<>> /\ \E v \in {code, state} : v \in {<<>>, <<<<>>>>} ->
               [result |-> "malformed"]
          [] OTHER -> [result |-> "success", code |-> code[1], state |-> state[1]]

----------------------------------------------------------------------------
(* Properties *)

Param(key, v, plus) == <<key, "=">> \o Encoded(v, plus)

\* What the provider sends is what the callback reads, whatever characters the code
\* and the state have, wherever they stand and however a space is written; and a
\* provider's error is never taken for a success, whatever else the query says.
CallbackIsRead(code, state, plus) ==
    LET c == Param("code", code, plus)
        s == Param("state", state, plus)
        read == IF <<>> \in {code, state} THEN [result |-> "malformed"]
                ELSE [result |-> "success", code |-> code, state |-> state]
    IN  /\ ParseCallback(c \o <<"&">> \o s) = read
        /\ ParseCallback(<<"x", "&">> \o s \o <<"&">> \o c) = read
        /\ ParseCallback(c \o <<"&">> \o s \o <<"&">> \o Param("error", code, plus))
             = [result |-> "error", error |-> code]
=============================================================================
