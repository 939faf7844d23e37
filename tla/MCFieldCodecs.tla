------------------------------ MODULE MCFieldCodecs ------------------------------
(* Values at the edges of every type, answers of every kind, profiles good and bad. *)
EXTENDS FieldCodecs

Halves == {-300, -257, -256, -126, -17, -16, -3, -1, 0, 1, 3, 14, 15, 16, 30, 31, 32,
           126, 127, 254, 255, 256, 510, 512}

MCValues ==
    {Finite("int", n) : n \in {h \in Halves : h % 2 = 0}}
        \cup {Finite(type, n) : type \in {"decimal", "float"}, n \in Halves}
        \cup {Special(type, s) : type \in {"decimal", "float"}, s \in {"nan", "inf", "-inf"}}
        \cup {Finite("bool", n) : n \in {0, 2}} \cup {Finite("str", 0)}

Ints == {"int16", "uint16", "int32", "uint32"}
Layouts == [datatype : Ints \cup {"float32"}, order : {"big_endian", "little_endian"}, swap : BOOLEAN]
NodeTypes == [datatype : Ints \cup {"bool", "string", "float", "double"}]

\* What a device may answer: also a boolean, a text, nothing, and a printed container.
Answers == (MCValues \ {v \in MCValues : v.type = "decimal"})
               \cup {Finite("container", 0), Finite("nothing", 0)}

Points == [group : {1, 30}, index : {0, 1},
           value : {Finite("bool", 2), Finite("int", 2), Finite("float", 3), Special("float", "nan"),
                    Finite("nothing", 0)}]

MCJobs ==
    [protocol : {"modbus"}, layout : Layouts, value : MCValues]
        \cup [protocol : {"server"}, layout : {[datatype |-> "float32"]}, value : MCValues]
        \cup [protocol : {"opcua"}, layout : NodeTypes, value : MCValues]
        \cup [protocol : {"mqtt"}, layout : {[datatype |-> "json"]}, value : MCValues]
        \cup [protocol : {"modbus"}, layout : Layouts, wire : BoundedSeq({0, 1, 7, 8, 15}, 3)]
        \cup [protocol : {"opcua"}, layout : NodeTypes, wire : Answers]
        \cup [protocol : {"dnp3"}, wire : BoundedSeq(Points, 2),
              layout : {[group |-> 1, variation |-> 1, index |-> 0],
                        [group |-> 30, variation |-> 1, index |-> 1],
                        [group |-> 30, variation |-> 5, index |-> 0]}]
        \cup [protocol : {"iec61850"}, wire : Answers,
              layout : [datatype : {"bool", "int32", "float", "string"}]]
        \cup [protocol : {"mqtt"}, layout : {[datatype |-> "json"]},
              wire : Answers \cup {Finite("decimal", n) : n \in Halves}]

OneTarget(target) == [{"d1"} -> target]

MCProfiles ==
    [protocol : {"modbus"}, endpoint : {None, "port"},
     targets : {<<>>} \cup OneTarget([address : {-1, 0, MaxRegister, MaxRegister + 1}, datatype : {"int16", "float32"},
                          order : {"big_endian", "middle"},
                          access : {"read", "write", "both"}, code : {NotGiven, 1, 3, 4, 6, 16},
                          unit : {NotGiven, 0, 1, 247, 248}])]
    \cup [protocol : {"opcua"}, endpoint : {None},
          targets : OneTarget([access : {"read", "both"},
                               node : [kind : {"i", "s"}, wellFormed : BOOLEAN, numeric : BOOLEAN,
                                       namespace : {0, 65535, 65536}]])]
    \cup [protocol : {"dnp3"}, endpoint : {None},
          targets : OneTarget([group : {1, 30, 40}, variation : {1, 2, 5}, index : {-1, 0},
                               access : {"read", "both"}])]
    \cup [protocol : {"iec61850"}, endpoint : {None},
          targets : OneTarget([reference : BOOLEAN, fc : {"MX", "CO"}, datatype : {"bool", "array"},
                               access : {"read", "write"}])]
    \cup [protocol : {"mqtt"}, endpoint : {None},
          targets : [{"d1", "d2"} -> [telemetry : {None, "t1", "t2"}, command : {None, "t1", "t2", "t3"},
                                      publish : {0}, subscribe : {1, 3}]]]
    \cup [protocol : {"server"}, endpoint : {None},
          reads : BoundedSeq([address : {-1, 0, 1, 3}, device : {"d1"}], 1),
          writes : BoundedSeq([address : {1, 3, 4, 6, 7}, device : {"", "d1"}], 2)]
==================================================================================
