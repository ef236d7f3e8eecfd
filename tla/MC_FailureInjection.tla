------------------------ MODULE MC_FailureInjection ------------------------
(* Small instances of FailureInjection for TLC.                            *)
EXTENDS FailureInjection, Bitwise, TLC

CXor(a, b) == a ^^ b

(* Off; chosen at random, with and without a list; and the two settings    *)
(* that override it, as configs/base.yml combines them with the mode.      *)
Setting(mode, gen_all, creat, listing) ==
  [mode |-> mode, gen_all |-> gen_all, creat |-> creat, listing |-> listing]

Settings == {
  Setting("NONE", FALSE, FALSE, TRUE),
  Setting("IMG_GEN", FALSE, FALSE, TRUE),
  Setting("IMG_GEN", FALSE, FALSE, FALSE),
  Setting("IMG_GEN", TRUE, FALSE, TRUE),
  Setting("IMG_GEN", FALSE, TRUE, TRUE) }
=============================================================================
