----------------------------- MODULE MCFileSys -----------------------------
(***************************************************************************)
(* TLC instance of FileSys.                                                *)
(***************************************************************************)
EXTENDS FileSys, TLC

abs(ns) == [abs |-> TRUE, names |-> ns]
rel(ns) == [abs |-> FALSE, names |-> ns]
plain(op, path) == [op |-> op, path |-> path, new |-> rel(<<>>), mode |-> {}, major |-> 0, n |-> 0]
fdcall(op) == plain(op, rel(<<>>))

\* What mkfs makes of one file f of one block, and then mkdir() of d in it.
Img == INSTANCE Mkfs
Fresh == Img!main(<<[name |-> "f", n |-> 1]>>)
New == [FreeDinode EXCEPT !.type = "DIR", !.nlink = 1]
Dot == dirlink(New, <<>>, Fresh.bitmap, ".", 3)
Dots == dirlink(Dot.d, Dot.e, Dot.m, "..", ROOTINO)
Root == dirlink(Fresh.dinode[ROOTINO], Fresh.ents[ROOTINO], Dots.m, "d", 3)
MCDisk ==
  [dinode |-> [Fresh.dinode EXCEPT ![3] = Dots.d, ![ROOTINO] = [Root.d EXCEPT !.nlink = @ + 1]],
   ents |-> [Fresh.ents EXCEPT ![3] = Dots.e, ![ROOTINO] = Root.e],
   bitmap |-> Root.m]

create == [plain("open", abs(<<"d", "g">>)) EXCEPT !.mode = {"O_CREATE", "O_WRONLY"}]
trunc  == [plain("open", rel(<<"f">>)) EXCEPT !.mode = {"O_RDWR", "O_TRUNC"}]
link   == [plain("link", abs(<<"f">>)) EXCEPT !.new = abs(<<"d", "g">>)]
write  == [fdcall("write") EXCEPT !.n = 2]
device == [plain("mknod", rel(<<"v">>)) EXCEPT !.major = 9]

\* Calls that bear on the same names, as one process makes them.
MCProgram ==
  {<<create, write, plain("unlink", abs(<<"d", "g">>))>>,
   <<trunc, fdcall("dup"), fdcall("close"), write>>,
   <<plain("chdir", abs(<<"d">>)), plain("mkdir", rel(<<"e">>))>>,
   <<device, plain("open", abs(<<"v">>)), plain("chdir", rel(<<"v">>))>>,
   <<link, plain("unlink", abs(<<"f">>))>>,
   <<plain("unlink", abs(<<"d", "g">>)), plain("unlink", abs(<<"d">>))>>,
   <<plain("open", abs(<<"f">>)), fdcall("read"), fdcall("fstat"), plain("link", abs(<<"d">>)), plain("mkdir", abs(<<>>))>>,
   <<plain("unlink", abs(<<"f">>)), fdcall("pipe"), create, plain("unlink", abs(<<"d", "..">>))>>}

MCPrograms == [Proc -> MCProgram]
=============================================================================
