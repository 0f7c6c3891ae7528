CONSTANTS
    VectorInput <- DependentJobs
SPECIFICATION VectorSpec
INVARIANTS DependentsReported
