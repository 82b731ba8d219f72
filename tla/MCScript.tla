------------------------------ MODULE MCScript ------------------------------
(***************************************************************************)
(* Small instances of Script.                                              *)
(***************************************************************************)
EXTENDS Script

Read        == [op |-> "read"]
Write(data) == [op |-> "write", data |-> data]
Close       == [op |-> "close"]
Hang        == [op |-> "hang"]

Header == <<"field", NL, NL>>

\* Outputs in one, two or three writes, with a header, without, or with a
\* header that is cut.
Outputs ==
  {<<>>,
   <<Write(Header \o <<"x">>)>>,
   <<Write(Header \o <<"x">>), Write(<<NL, "x">>)>>,
   <<Write(Header), Write(<<"x", "y">>), Write(<<"z">>)>>,
   <<Write(<<"field", NL, "404 Not Found", NL, NL>>), Write(<<"x">>)>>,
   <<Write(<<"200 OK", NL, NL, "x">>), Write(<<"y">>)>>,
   <<Write(<<"None", NL, NL, "x">>)>>,
   <<Write(<<"404 Not Found", NL, "None", NL, NL>>)>>,
   <<Write(<<"x", "y">>), Write(<<"z">>)>>,
   <<Write(<<"x", NL, "y">>), Write(<<"z">>)>>,
   <<Write(<<"field", NL>>), Write(<<"404 Not Found", NL, NL, "x">>)>>,
   <<Write(<<"field", NL, "x", NL, "y">>)>>}

\* Outputs beyond the limit, by little and by more than a pipe.
Large ==
  {<<Write(Header \o <<"x", "x">>), Write(<<"x", "x">>), Write(<<"x", "x", "x">>)>>,
   <<Write(<<"field", NL, "field", NL, NL>>), Write(<<"x", "x", "x", "x", "x">>), Write(<<"x", "x", "x", "x", "x">>)>>,
   <<Write(<<"x", "x", "x", "x", "x">>), Write(<<"x", "x", "x", "x", "x">>), Write(<<"x", "x", "x", "x", "x">>), Write(<<"x", "x">>)>>,
   <<Write(Header \o <<"x", "x">>), Write(<<"x", "x", "x">>), Write(<<"x", "x", "x", "x", "x">>), Write(<<"x", "x">>)>>,
   <<Write(<<"x", "x", "x", "x", "x">>), Write(<<"x", "x", "x", "x", "x">>), Write(<<"x", "x", "x">>)>>}

\* Scripts that read their input before, between and after, and that close
\* their output or hang at the end.
MCPrograms ==
  [steps : Outputs \union Large, code : {0, 1}]
  \union [steps : {<<Read, Read, Read>> \o o : o \in Outputs}, code : {0}]
  \union [steps : {<<Read, Read, Read, Read, Read, Read, Read>>, <<Read, Write(Header \o <<"x">>), Read, Write(<<"y">>), Read>>,
                   <<Read, Write(Header \o <<"x">>)>>}, code : {0, 1}]
  \union [steps : {o \o <<e>> : o \in Outputs, e \in {Close, Hang}}
                  \union {o \o <<Close, Hang>> : o \in Outputs}, code : {0, 1}]

\* The values of the Status fields.
MCNumber == [status \in {"404 Not Found", "200 OK", "None"} |->
               CASE status = "404 Not Found" -> 404
                 [] status = "200 OK"        -> 200
                 [] OTHER                    -> NoNumber]
MCFields == {"field"} \union DOMAIN MCNumber
MCBodies == {<<"1", "2", "3", "4", "5", "6", "7">>, <<>>}
=============================================================================
