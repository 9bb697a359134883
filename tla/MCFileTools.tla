----------------------------- MODULE MCFileTools -----------------------------
(***************************************************************************)
(* Small instances of FileTools for TLC: two paths, texts of up to three   *)
(* tokens, and one or two requests of each tool that can work, fail and    *)
(* get in each other's way.                                                *)
(***************************************************************************)
EXTENDS FileTools, TLC

CONSTANTS f, g, a, b, w, Kinds

Request == [tool |-> "edit", path |-> f, dst |-> g, edits |-> <<>>, hunks |-> <<>>, text |-> <<>>,
            charset |-> "UTF-8", bom |-> FALSE, dry |-> FALSE, guard |-> FALSE]
Sub(x, y, all) == [old |-> x, new |-> y, replaceAll |-> all]

AllOps ==
    {[Request EXCEPT !.edits = <<Sub(a, b, FALSE)>>, !.guard = TRUE],
     [Request EXCEPT !.edits = <<Sub(a, w, TRUE)>>],
     [Request EXCEPT !.tool = "multiedit", !.edits = <<Sub(b, w, FALSE), Sub(a, b, FALSE)>>],
     [Request EXCEPT !.tool = "multiedit", !.edits = <<Sub(b, a, FALSE)>>, !.dry = TRUE],
     [Request EXCEPT !.tool = "write", !.text = <<b>>],
     [Request EXCEPT !.tool = "patch",
                     !.hunks = <<[srcStart |-> 1, del |-> <<a>>, add |-> <<a, b>>]>>],
     [Request EXCEPT !.tool = "patch",
                     !.hunks = <<[srcStart |-> 1, del |-> <<a>>, add |-> <<>>],
                                 [srcStart |-> 2, del |-> <<b>>, add |-> <<b, a>>]>>],
     [Request EXCEPT !.tool = "regex_replace", !.edits = <<Sub(b, a, TRUE)>>],
     [Request EXCEPT !.tool = "convert_encoding", !.charset = "UTF-16LE"],
     [Request EXCEPT !.tool = "convert_encoding", !.charset = "legacy"],
     [Request EXCEPT !.tool = "copy", !.guard = TRUE],
     [Request EXCEPT !.tool = "copy", !.path = g, !.dst = f],
     [Request EXCEPT !.tool = "rename"],
     [Request EXCEPT !.tool = "rename", !.path = g, !.dst = f],
     [Request EXCEPT !.tool = "delete"]}
    \cup {[Request EXCEPT !.tool = t, !.dry = TRUE] : t \in {"copy", "rename", "delete"}}

MCOps == {o \in AllOps : o.tool \in Kinds}

Stored(t, cs, bom, mode) ==
    [text |-> t, charset |-> cs, bom |-> bom, mode |-> mode, whole |-> TRUE]
MCFirstFiles == {Stored(<<a, b>>, "UTF-8", TRUE, "0755"), Stored(<<a, b, a>>, "legacy", FALSE, "0644")}

Symmetry == Permutations(Calls)
=============================================================================
