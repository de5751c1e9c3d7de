------------------------------ MODULE MCCodecs ------------------------------
(***************************************************************************)
(* An instance of Codecs: every short input of each function, with the     *)
(* sizes scaled down so that every boundary is crossed.                    *)
(***************************************************************************)
EXTENDS Codecs

Job(fn, inputs) == {[fn |-> fn, input |-> i] : i \in inputs}
Upto(S, n) == UNION {[1..k -> S] : k \in 0..n}

Bare(key, value) ==
    [pad |-> [i \in 1..4 |-> <<>>], key |-> key, sign |-> <<"=">>, value |-> value, note |-> <<>>]
Padded(l) == [l EXCEPT !.pad = [i \in 1..4 |-> <<" ">>]]
Noted(l) == [l EXCEPT !.note = <<"#", "=">>]
Settings == {Bare(<<k>>, v) : k \in {"a", "b"},
               v \in {<<"v">>, <<"=", "w">>, <<"w", " ", "w">>, <<"w", "w", "w", "w">>}}
Run(n) == [i \in 1..n |-> "w"]
Tail3 == <<"b", "=", "v">>      \* what is left of a line that is too long
\* lines that set nothing, or nothing but that
Idle == {Noted(Bare(<<>>, <<"z">>)), Bare(<<"a">>, <<>>),
         [Bare(<<"a">>, <<"z">>) EXCEPT !.sign = <<>>],
         Bare(<<"a">>, Run(LineSize - 3) \o Tail3),
         [Bare(<<>>, <<>>) EXCEPT !.sign = <<>>, !.note = <<"#">> \o Run(LineSize - 2) \o Tail3]}
ConfigInputs ==
    {<<x, z, Noted(Padded(y))>> : x \in Settings \cup {Padded(l) : l \in Settings},
                                  y \in Settings, z \in Idle}

Key == <<1, 7, 3, 2>>
Payloads == {[i \in 1..n |-> i % ByteBase] : n \in {0, 1, 2, 5, 63, 64, 70}}
FrameInputs ==
    [payload : Payloads, opcode : {1}, key : {Key}, more : {<<>>, ClientFrame(<<5>>, 1, Key), <<7>>}]
    \cup [payload : Payloads, opcode : {1}, key : {<<>>}, more : {<<>>}]

Str(n) == Node("string", n)
Entry == <<Node("array", 1), Node("array", 2), Str(3), Node("array", 2), Str(7), Str(0)>>
Deep(n) == [i \in 1..n |-> Node("array", 1)] \o <<Str(1)>>
ReplyInputs ==
    {<<Entry, <<Node("integer", 2)>>>>, <<<<Str(-1)>>, <<Node("array", 0)>>, <<Node("error", 0)>>>>,
     <<<<Node("array", 3), Str(-1), Node("array", 0), Node("status", 0)>>, Entry>>,
     <<Deep(MaxDepth - 1)>>, <<Deep(MaxDepth)>>}

MCJobs ==
    Job("CStrExplode", Upto({"m", ","}, 5))
    \cup Job("base64_encode", Upto({0, 77, 255}, 4))
    \cup Job("config", ConfigInputs)
    \cup Job("MD5", Upto({1, 2}, 6) \cup {[i \in 1..n |-> i] : n \in 7..9})
    \cup Job("frame", FrameInputs)
    \cup Job("Xadd", Upto({"x", "d", "s", " ", "%"}, 4))
    \cup Job("redisReader", ReplyInputs)

=============================================================================
