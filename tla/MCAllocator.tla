----------------------------- MODULE MCAllocator -----------------------------
EXTENDS Allocator
=============================================================================
