------------------------------ MODULE MCLibrary -------------------------------
(* Library.tla on two documents: a longer one somebody reads, and an essay,  *)
(* a PDF still in conversion, or one whose re-chunk has failed.  Two buckets *)
(* for up to three chunks, and a cutoff between one chunk and two of three.  *)
EXTENDS Library, TLC

CONSTANTS novel, other, r1, r2

MCDocs      == {novel, other}
MCTags      == {"brick", "oak"}
MCCanonical == "brick" :> "brick" @@ "Brick " :> "brick" @@ "oak" :> "oak" @@ "" :> Invalid
MCLayouts   == {<<1>>, <<1, 2>>}
MCSelections == {<<novel, other>>, <<other>>}
MCFilters   == {{}, {"Brick "}, {"oak"}, {"", "brick", "oak"}}

\* A document nobody has opened.
New(status, sections) ==
    [status |-> status, title |-> "old", total |-> Chunks(sections),
     sections |-> sections, rated |-> {}, place |-> Unread, tags |-> {}]

Novel == [New("ready", <<1, 2>>) EXCEPT
            !.place = [current |-> 1, high |-> 1], !.rated = {0}, !.tags = {"brick"}]

MCShelves ==
    {novel :> Novel @@ other :> o :
        o \in {New("ready", <<1>>), New("processing", <<>>),
               [Novel EXCEPT !.status = "failed", !.sections = <<>>, !.rated = {}]}}

Perms == Permutations({r1, r2})

===============================================================================
