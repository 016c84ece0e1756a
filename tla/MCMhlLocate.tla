---------------------------- MODULE MCMhlLocate ----------------------------
(***************************************************************************)
(* A card "/card" with a reel in a subfolder, copied to "/disk".  Paths    *)
(* are written relatively from the root, from the card and from the reel,  *)
(* absolutely, with "..", with ".", with a trailing separator, and through *)
(* a folder that does not exist.                                           *)
(***************************************************************************)
EXTENDS MhlLocate

CONSTANT none

MCNames == {"card", "reel", "disk", "clip", "notes", "top", "gone", "verify", "list.mhl"}
MCFolders == { <<>>, <<"card">>, <<"card", "reel">>, <<"disk">>, <<"disk", "reel">> }
MCFiles == { <<"card", "reel", "clip">>, <<"card", "notes">>, <<"top">> }
MCUnreadable == {}
MCWorkdirs == { <<>>, <<"card">>, <<"card", "reel">> }
MCArgPaths ==
  { Rel(<<"reel", "clip">>), Rel(<<"..", "card", "notes">>), Rel(<<".", "">>),
    Rel(<<"clip">>), Rel(<<"gone", "..", "clip">>), Rel(<<"..", "..", "disk", "reel">>),
    Abs(<<"card", "reel", "clip">>), Abs(<<"disk", "reel", "clip">>),
    Abs(<<"card", "">>), Abs(<<"disk", "..", "card", "reel", "clip">>),
    Abs(<<"top">>) }
MCOutPaths ==
  { Rel(<<".">>), Rel(<<"..">>), Abs(<<"card", "reel">>), Abs(<<"card", ".", "">>),
    Abs(<<"">>), Abs(<<"disk">>) }
MCCopyFrom == <<"card">>
MCCopyTo   == <<"disk">>
MCUnreadableReel == { <<"disk", "reel">> }
=============================================================================
