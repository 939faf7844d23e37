----------------------------- MODULE MCFieldPorts -----------------------------
EXTENDS FieldPorts, TLC

R == {"read"}
W == {"write"}

Port(kind, targets) == [kind |-> kind, targets |-> targets]

Modbus == Port("modbus", "m" :> R)
Opcua  == Port("opcua", "o" :> W)
Dnp3   == Port("dnp3", "d" :> R)
Iec    == Port("iec61850", "i" :> R)
Mqtt   == Port("mqtt", "q" :> {"read", "write"})

MCSetups ==
    {<<Iec, Modbus, Mqtt>>, <<Modbus, Opcua>>, <<Mqtt, Opcua>>, <<Dnp3, Iec>>,
     <<Port("modbus", "m" :> W), Port("opcua", "o" :> R), Port("dnp3", "d" :> W)>>,
     <<Port("mqtt", ("q" :> R) @@ ("c" :> W))>>}
===============================================================================
