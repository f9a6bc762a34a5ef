------------------------------ MODULE MCCodec ------------------------------
(* Constants of the run of Codec: files at the top, in a directory named like  *)
(* the group of those, and in directories within directories, one of which may *)
(* have no file of its own.                                                    *)
EXTENDS Codec

MCPaths == << <<"app", "f">>, <<"app", "in", "deep", "f">>, <<"app", "in", "f">>,
              <<"root", "f">>, <<"z">> >>
MCSystems   == <<"app", "root">>
MCExporting == {<<"app", "f">>, <<"z">>}
MCRequiring == {<<"app", "in", "f">>}
=============================================================================
