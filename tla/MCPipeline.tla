----------------------------- MODULE MCPipeline -----------------------------
(* Pipeline on small instances for TLC.                                    *)
EXTENDS Pipeline

AnyUpload == <<TitleKind>>
AwaitedAndPrinted == <<{"awaited"}, {"printed"}>>
AwaitedAndImage == <<{"awaited"}, {"none"}>>
=============================================================================
