----------------------------- MODULE MCBlogCrawl -----------------------------
(* BlogCrawl on a small blog.                                              *)
EXTENDS BlogCrawl

MCConns == Tasks \cup {Main}
MCPaths == Pages \cup {StatsPath}
=============================================================================
