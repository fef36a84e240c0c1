------------------------------ MODULE FlashJobMC ------------------------------
(* FlashJob for TLC: a package whose group keys sort differently as text. *)
EXTENDS FlashJob

Command(g, do, what, segs) == [group |-> g, do |-> do, what |-> what, segs |-> segs]

MCPackage == <<
    Command(10, "erase", "nvm", 1),
    Command(10, "flash", "cp.bin", 2),
    Command(1, "require", "product", 1),
    Command(1, "call", "preboot.img", 1),
    Command(2, "call", "flasher.img", 1),
    Command(2, "partition", "partition.bin", 1),
    Command(11, "flash", "app.bin", 1) >>

Flags(retry, limited, missing) == [retry |-> retry, limited |-> limited, missing |-> missing]

MCOptions ==
    {Flags(TRUE, FALSE, {}), Flags(FALSE, TRUE, {}), Flags(TRUE, FALSE, {"app.bin"})}

MCRetry == {Flags(TRUE, FALSE, {})}
=============================================================================
