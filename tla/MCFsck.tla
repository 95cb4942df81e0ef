-------------------------------- MODULE MCFsck --------------------------------
EXTENDS Fsck

MCTrees ==
    { (2 :> <<<<"d", 3>>>>) @@ (3 :> <<<<"f", 4>>>>),
      (2 :> <<<<"f", 3>>, <<"d", 4>>>>) @@ (4 :> <<<<"g", 3>>>>),
      (2 :> <<<<"lost+found", 3>>, <<"d", 4>>>>) @@ (3 :> <<>>) @@ (4 :> <<<<"f", 5>>>>),
      (2 :> <<<<"lost+found", 3>>, <<"f", 4>>>>) @@ (3 :> <<<<"#5", 5>>, <<"#6", 6>>>>) }

MCWholes == {{}, Inum}
===============================================================================
