----------------------------- MODULE MCDevices -----------------------------
(* A small instance of Devices for TLC.  Of the texts two are the same      *)
(* address, one with a leading zero; the others are errors: too large, too  *)
(* large for unsigned long, three parts, an empty part, a letter, nothing.  *)
EXTENDS Devices

SomeTexts == {
    <<<<1>>, <<0>>, <<2>>, <<5>>>>,
    <<<<0, 1>>, <<0>>, <<0, 0, 2>>, <<5>>>>,
    <<<<1>>, <<0>>, <<2, 5, 5>>, <<1, 0>>>>,
    <<<<1>>, <<0>>, <<0>>, <<2, 5, 6>>>>,
    <<<<1>>, <<0>>, <<0>>, <<9, 9, 9, 9>>>>,
    <<<<1>>, <<0>>, <<5>>>>,
    <<<<1>>, <<0>>, << >>, <<5>>>>,
    <<<<1>>, <<0>>, <<10>>, <<5>>>>,
    << << >> >>}

SomeAddresses == {ipv4_to_u32(text) : text \in {t \in SomeTexts : ipv4_error(t) = "none"}}
=============================================================================
