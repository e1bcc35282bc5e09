--------------------------- MODULE MCPacketCodec ----------------------------
(* PacketCodec on packets and datagrams around every length and value the   *)
(* code compares with; all other bytes differ from one another.             *)
EXTENDS PacketCodec

Range(a, n) == [i \in 1 .. n |-> a + i]

MCHeaders ==
  [version : {1, 2}, type : {1, 15}, len : {14, 16, 20, 28, 29},
   channel : {Range(40, 4)}, sender : {Range(50, 4)}, sequence : {Range(60, 2)},
   flags : {<<0, 0>>, <<0, 1>>, <<1, 2>>}]

MCPayloads == {Range(70, n) : n \in 0 .. 2}

MCPackets ==
  [kind : {"Plain"}, header : MCHeaders, payload : MCPayloads] \union
  [kind : {"Secured"}, header : MCHeaders, nonce : {Range(80, 8)},
   key : {Range(90, 4)}, payload : MCPayloads, tag : {Range(100, 16)}]

MCDatagram(v, t, h, f, n) ==
  [i \in 1 .. n |->
     CASE i = 1 -> v
       [] i = 2 -> t
       [] i = 3 -> h \div 256
       [] i = 4 -> h % 256
       [] i = 16 -> f
       [] OTHER -> (100 + i) % 256]

MCDatagrams ==
  {MCDatagram(v, t, h, f, n) :
     v \in {0, 1}, t \in {0, 1, 15, 16}, h \in {0, 13, 14, 15, 16, 17, 27, 28, 29, 257},
     f \in {0, 1}, n \in {0, 1, 300} \union 13 .. 17 \union 27 .. 30 \union 43 .. 46}

=============================================================================
