SPECIFICATION Spec
CONSTANT
    StatusCodes = {0, 199, 200, 299, 300, 400, 401, 403, 408, 409, 429, 499, 500, 503}
INVARIANTS
    EmptyResultHealthy
