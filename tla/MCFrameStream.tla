--------------------------- MODULE MCFrameStream ----------------------------
(* FrameStream for model checking.                                         *)
EXTENDS FrameStream

Ids == {0, 239, 240, 2287, 2288, 264431, 264432, Word - 1}

Long == [i \in 1 .. 240 |-> 97]
V6 == [i \in 1 .. 16 |-> i]

MCValues ==
    {Nil, Value("bool", <<0>>), Value("bool", <<1>>),
     Value("int32", <<-1>>), Value("int32", <<-(Half \div 2)>>),
     Value("int32", <<Half \div 2 - 1>>), Value("uint32", <<Half - 1>>),
     Value("int", <<-1>>), Value("int64", <<-(Word \div 2)>>),
     Value("uint", <<Word - 1>>), Value("uint64", <<Word - 1>>),
     Value("string", <<>>), Value("string", Long), Value("bytes", <<0, 255>>),
     Value("ip", <<10, 0, 0, 1>>), Value("ip", V4InV6 \o <<10, 0, 0, 2>>),
     Value("ip", V6), Value("ip", <<1, 2, 3>>), Value("other", <<>>)}

MCFrame(type, flags, id, payload) ==
    [type |-> type, flags |-> flags, stream |-> id, frame |-> id, payload |-> payload]

Act(type, scope, val) == [type |-> type, scope |-> scope, name |-> <<9>>, val |-> val]

MCSamples ==
    {MCFrame(AgentAck, 1, id, <<>>) : id \in Ids}
    \cup {MCFrame(101, 1, 0, <<Item(<<9>>, v), Item(<<>>, Nil)>>) : v \in MCValues}
    \cup {MCFrame(AgentAck, 1, 1, <<Act(SetVar, 4, v), Act(UnsetVar, 0, Nil)>>) : v \in MCValues}
    \cup {MCFrame(1, 1, 0, <<Item(n, v)>>) :
             n \in {Healthcheck, MaxSizeItem, EngineID},
             v \in {Value("bool", <<1>>), Value("uint32", <<256>>), Value("string", <<7>>)}}
    \cup {MCFrame(2, flags, 0, <<>>) : flags \in 0 .. 3}
    \cup {MCFrame(Notify, 1, 1, <<>>),
          MCFrame(Notify, 1, 240, <<[name |-> <<9>>, kv |-> <<Item(<<8>>, Value("int", <<-1>>)), Item(<<>>, Nil)>>],
                                    [name |-> <<>>, kv |-> <<>>]>>)}

=============================================================================
