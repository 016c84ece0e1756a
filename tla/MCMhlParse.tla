----------------------------- MODULE MCMhlParse -----------------------------
(***************************************************************************)
(* Lists of other origin: one record with any three of the elements below  *)
(* after or before file and size, followed by a plain record of the same   *)
(* or another file.                                                        *)
(***************************************************************************)
EXTENDS MhlParse

CONSTANTS f1, f2, c1, c2

MCFiles == {f1, f2}
MCSelections == {{"sha1"}, {"md5", "xxhash"}, {"sha1", "xxhash64be"},
                 {"md5", "sha1", "xxhash64"}, {"xxhash", "xxhash64", "xxhash64be"}}

F(f)  == Element("file", f)
Size  == Element("size", Fine)
Sha   == Element("sha1", <<"sha1", c1>>)
Md5   == Element("md5", <<"md5", c1>>)
Xx    == Element("xxhash", <<"xxhash", c2>>)
Parts == {Sha, Md5, Xx, Null, Element("md5", Bad), Element("hashdate", Fine)}

Bodies == {<<>>} \cup {<<a>> : a \in Parts} \cup {<<a, b>> : a, b \in Parts}
            \cup {<<a, b, c>> : a, b, c \in Parts}
Records == {Record(FALSE, <<F(f1), Size>> \o body) : body \in Bodies}
        \cup {Record(FALSE, <<F(f1)>> \o body \o <<Size, F(f2)>>) : body \in Bodies}
        \cup {Record(FALSE, body) :
                body \in {<<F(f1), Md5>>, <<Size, Md5>>, <<F(Bad), Size, Md5>>,
                          <<F(f1), Element("size", Bad), Md5>>, <<Element("sha1", Bad)>>}}
        \cup {Record(TRUE, <<F(f1), Size, Md5>>)}
Second == {Record(FALSE, <<F(f1), Size, Element("md5", <<"md5", c2>>)>>),
           Record(FALSE, <<F(f2), Size, Sha>>), Record(TRUE, <<F(f1), Size, Sha>>)}

MCGivenLists ==
  { [records |-> <<r, s>>, shape |-> "whole"] : r \in Records, s \in Second }
  \cup { [records |-> <<>>, shape |-> s] :
           s \in {"missing", "other root", "new version", "no version", "whole"} }
=============================================================================
