---------------------------- MODULE MCBotSession ----------------------------
(* Instances of BotSession for TLC: what each document really is.          *)
EXTENDS BotSession, TLC

CONSTANTS app, lib, cert1, profile

Kinds == app :> "ipa" @@ lib :> "dylib" @@ cert1 :> "p12" @@ profile :> "prov"
Alike == Permutations(Handlers)
=============================================================================
