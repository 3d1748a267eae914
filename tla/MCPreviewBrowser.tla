-------------------------- MODULE MCPreviewBrowser --------------------------
(* One preview with one viewport to capture.                               *)
EXTENDS PreviewBrowser

OneViewport == <<"mobile">>
=============================================================================
