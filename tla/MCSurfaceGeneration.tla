------------------------ MODULE MCSurfaceGeneration ------------------------
(***************************************************************************)
(* Instance of SurfaceGeneration: a container with itself, its file tree,  *)
(* one work stream and one plain file.                                     *)
(***************************************************************************)
EXTENDS SurfaceGeneration

Cell(own, row) == [own |-> own, row |-> row]

\* Texts of one, three and seven characters, stated by the dataset or by its workbook.
MCCells == {Cell(1, 3), Cell(0, 7)}

MCEntities == {"box", "tree", "stream", "file"}
MCTypes == {"DataContainer", "FileTree", "WorkStream", "GenericFile", "title"}
MCTermsOf == [e \in MCEntities |->
    CASE e = "box" -> {"DataContainer", "title"} [] e = "tree" -> {"FileTree", "title"}
      [] e = "stream" -> {"WorkStream", "title"} [] OTHER -> {"GenericFile", "title"}]

Component(id, required, tileClass, terminal, bundled, maxColumns) ==
    [id |-> id, required |-> required, tileClass |-> tileClass, terminal |-> terminal,
     bundled |-> bundled, built |-> ~terminal, minColumns |-> 2, maxColumns |-> maxColumns,
     minRows |-> 2, chars |-> 2]

\* The logo of the package itself; in ontobdc_view its terminal twin, tiles for the
\* container, the tree and the work stream, one of them more specific, and chrome.
MCComponents ==
    {Component(1, {}, "Logo", FALSE, TRUE, None), Component(2, {}, "Logo", TRUE, FALSE, None),
     Component(3, {"DataContainer"}, "Box", FALSE, FALSE, 3),
     Component(4, {"FileTree"}, "Tree", FALSE, FALSE, None),
     Component(5, {"title"}, "Any", TRUE, FALSE, 4),
     Component(6, {"WorkStream", "title"}, "Stream", FALSE, FALSE, 1),
     Component(7, {}, "FileSize", FALSE, FALSE, None)}

MCChrome == {"FileSize", "FileViewer"}
MCLayout == {"Logo", "Theme"}
MCSurfaceable == {"DataContainer", "FileTree", "WorkStream"}
MCWorkStreams == {"stream"}
MCFixed == {"box", "tree"}
=============================================================================
