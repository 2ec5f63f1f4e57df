-------------------------- MODULE MCDeviceControl --------------------------
(***************************************************************************)
(* Instances of DeviceControl with two gateways and two servicers: one     *)
(* servicer on each tile under I2C and SPI, both on the gateways' tile     *)
(* under I2C and USB, and two that cannot register, for a resource that is *)
(* claimed twice and for the special one.                                  *)
(***************************************************************************)
EXTENDS DeviceControl, TLC

CONSTANTS g1, g2, s1, s2, a, b

Setup(other, off, claimed) ==
    [transport |-> g1 :> "i2c" @@ g2 :> other,
     offTile |-> off,
     claims |-> s1 :> <<a>> @@ s2 :> claimed]

MCSetups == {Setup("spi", {s2}, <<b>>), Setup("usb", {}, <<b>>),
             Setup("spi", {s2}, <<b, a>>), Setup("usb", {}, <<Special>>)}

MCOrder == s1 :> <<g1, g2>> @@ s2 :> <<g2, g1>>
============================================================================
